---------------------------- MODULE Spec2Model ----------------------------
(***************************************************************************)
(* A model of the chess engine: Board.py (grid, piece collections, score,  *)
(* make_move / unmake_move, check_check, check_won), Pieces.py (move       *)
(* generation per piece kind), AI_player.py (the backtracking search) and  *)
(* Game.py (user move validation, do_turn, play_game).                     *)
(*                                                                         *)
(* Squares are pairs <<x, y>> with x, y in 0..7, exactly as the tuples of  *)
(* the source; grid[y][x] is the occupant.  A piece is an identity 1..32   *)
(* (the order in which Board.__init__ creates them), Empty stands for the  *)
(* string "empty" of the grid; None and NoPiece stand for Python's None.  *)
(***************************************************************************)
EXTENDS Integers, Sequences, FiniteSets, TLC

Empty == 0

\* Python's None: as a square (origin, destination) and as a piece.
None == <<>>
NoPiece == -1
NoDepth == -1

White == "white"
Black == "black"
Sides == {White, Black}

Coords == 0..7
Squares == Coords \X Coords

WhiteIds == 1..16
BlackIds == 17..32
PieceIds == WhiteIds \cup BlackIds

\* Piece.player: set at construction and never changed.
player_of(p) == IF p \in WhiteIds THEN White ELSE Black

OtherPlayer(player) == IF player = White THEN Black ELSE White

\* The back rank in the order Board.__init__ appends it (columns 0..7).
BackRank == <<"rook", "knight", "bishop", "queen", "king", "bishop", "knight", "rook">>

\* Piece kinds and squares at construction: White back rank, White pawns,
\* Black pawns, Black back rank.
InitType(p) ==
    IF p \in 1..8 THEN BackRank[p]
    ELSE IF p \in 9..24 THEN "pawn"
    ELSE BackRank[p - 24]

InitPosition(p) ==
    IF p \in 1..8 THEN <<p - 1, 0>>
    ELSE IF p \in 9..16 THEN <<p - 9, 1>>
    ELSE IF p \in 17..24 THEN <<p - 17, 6>>
    ELSE <<p - 25, 7>>

\* Board.kings: set once by __init__, never reassigned.
kings(player) == IF player = White THEN 5 ELSE 29

(***************************************************************************)
(* Pieces.py: the per-kind behaviour objects.                              *)
(***************************************************************************)

\* The values on the conventional scale, half of those of the source.
Magnitude_Halved(kind) ==
    CASE kind = "pawn" -> 1
      [] kind = "knight" -> 3
      [] kind = "bishop" -> 3
      [] kind = "rook" -> 5
      [] kind = "queen" -> 9
      [] kind = "king" -> 100

\* The magnitude of <kind>_Behavior._value.
Magnitude(kind) ==
    CASE kind = "pawn" -> 2
      [] kind = "knight" -> 6
      [] kind = "bishop" -> 6
      [] kind = "rook" -> 10
      [] kind = "queen" -> 18
      [] kind = "king" -> 200

\* <kind>_Behavior._value: positive for White, negated for Black.
BehaviorValue(kind, player) ==
    IF player = White THEN Magnitude(kind) ELSE 0 - Magnitude(kind)

\* One ray: the vectors <<i*dx, i*dy>> for i = 1..7, near to far.
RayOf(dx, dy) == [i \in 1..7 |-> <<i * dx, i * dy>>]

RookDirections == <<RayOf(1, 0), RayOf(-1, 0), RayOf(0, 1), RayOf(0, -1)>>

BishopDirections == <<RayOf(1, 1), RayOf(1, -1), RayOf(-1, 1), RayOf(-1, -1)>>

QueenDirections == RookDirections \o BishopDirections

KnightDirections ==
    << <<(<<-2, -1>>)>>, <<(<<-2, 1>>)>>, <<(<<2, -1>>)>>, <<(<<2, 1>>)>>,
       <<(<<-1, -2>>)>>, <<(<<-1, 2>>)>>, <<(<<1, -2>>)>>, <<(<<1, 2>>)>> >>

KingDirections ==
    << <<(<<1, 1>>)>>, <<(<<1, 0>>)>>, <<(<<1, -1>>)>>, <<(<<0, -1>>)>>,
       <<(<<-1, -1>>)>>, <<(<<-1, 0>>)>>, <<(<<-1, 1>>)>>, <<(<<0, 1>>)>> >>

PawnDirections(player) ==
    IF player = White
    THEN << <<(<<-1, 1>>)>>, <<(<<0, 1>>), (<<0, 2>>)>>, <<(<<1, 1>>)>> >>
    ELSE << <<(<<-1, -1>>)>>, <<(<<0, -1>>), (<<0, -2>>)>>, <<(<<1, -1>>)>> >>

\* Piece.directions, delegated to the behaviour object.
Directions(kind, player) ==
    CASE kind = "rook" -> RookDirections
      [] kind = "knight" -> KnightDirections
      [] kind = "bishop" -> BishopDirections
      [] kind = "queen" -> QueenDirections
      [] kind = "king" -> KingDirections
      [] kind = "pawn" -> PawnDirections(player)

(***************************************************************************)
(* Board.py.  A board value B is the Board object together with the        *)
(* mutable attributes of its pieces:                                       *)
(*   B.grid[y][x]         occupant of square <<x, y>> (a piece or Empty)   *)
(*   B.pieces[player]     the ordered collection of that side              *)
(*   B.score, B.num_pieces                                                 *)
(*   B.position[p]        Piece.position (kept, stale, when p is captured) *)
(*   B.piece_behavior[p]  the kind of p's behaviour object                 *)
(***************************************************************************)

\* Piece.piece_type and Piece.value, delegated to the behaviour object.
piece_type(B, p) == B.piece_behavior[p]

value(B, p) == BehaviorValue(B.piece_behavior[p], player_of(p))

\* Board.__init__
NewBoard ==
    [grid |-> [y \in Coords |-> [x \in Coords |->
                  IF \E p \in PieceIds : InitPosition(p) = <<x, y>>
                  THEN CHOOSE p \in PieceIds : InitPosition(p) = <<x, y>>
                  ELSE Empty]],
     pieces |-> [s \in Sides |-> IF s = White THEN [i \in 1..16 |-> i]
                                              ELSE [i \in 1..16 |-> 16 + i]],
     score |-> 0,
     num_pieces |-> 32,
     position |-> [p \in PieceIds |-> InitPosition(p)],
     piece_behavior |-> [p \in PieceIds |-> InitType(p)]]

\* Board._inbounds
inbounds(pos) ==
    IF pos[1] < 0 THEN FALSE
    ELSE IF 7 < pos[1] THEN FALSE
    ELSE IF pos[2] < 0 THEN FALSE
    ELSE IF 7 < pos[2] THEN FALSE
    ELSE TRUE

\* grid[pos[1]][pos[0]] of the source.
At(B, pos) == B.grid[pos[2]][pos[1]]

\* Move(origin, origin_piece, destination, destination_piece)
Move(origin, origin_piece, destination, destination_piece) ==
    [origin |-> origin, origin_piece |-> origin_piece,
     destination |-> destination, destination_piece |-> destination_piece,
     score_change |-> 0, pawn_change |-> FALSE]

\* Move(): the "dummy" move, every argument defaulted.
NullMove ==
    [origin |-> None, origin_piece |-> NoPiece,
     destination |-> None, destination_piece |-> NoPiece,
     score_change |-> 0, pawn_change |-> FALSE]

\* list.index: the first index holding x.
IndexOf(seq, x) == CHOOSE i \in 1..Len(seq) :
                      /\ seq[i] = x
                      /\ \A j \in 1..(i - 1) : seq[j] # x

\* del list[i]
DeleteAt(seq, i) == [j \in 1..(Len(seq) - 1) |-> IF j < i THEN seq[j] ELSE seq[j + 1]]

\* Whether make_move turns the moving pawn into a queen.
ReachesLastRow(B, move) ==
    /\ piece_type(B, move.origin_piece) = "pawn"
    /\ \/ player_of(move.origin_piece) = White /\ move.destination[2] = 7
       \/ player_of(move.origin_piece) = Black /\ move.destination[2] = 0

\* make_move without lines 153 and 158: a promotion that leaves the score alone.
make_move_PromotionUnscored(B, move) ==
    LET o == move.origin
        d == move.destination
        mp == move.origin_piece
        dp == move.destination_piece
        cleared == [B.grid EXCEPT ![o[2]][o[1]] = Empty]
        grid1 == [cleared EXCEPT ![d[2]][d[1]] = mp]
        position1 == [B.position EXCEPT ![mp] = d]
        capture == dp # Empty
        pieces1 == IF capture
                   THEN [B.pieces EXCEPT ![player_of(dp)] =
                            DeleteAt(@, IndexOf(@, dp))]
                   ELSE B.pieces
        score1 == IF capture THEN B.score - value(B, dp) ELSE B.score
        num1 == IF capture THEN B.num_pieces - 1 ELSE B.num_pieces
        promote == ReachesLastRow(B, move)
        behavior1 == IF promote
                     THEN [B.piece_behavior EXCEPT ![mp] = "queen"]
                     ELSE B.piece_behavior
        score2 == score1
    IN [board |-> [grid |-> grid1, pieces |-> pieces1, score |-> score2,
                   num_pieces |-> num1, position |-> position1,
                   piece_behavior |-> behavior1],
        move |-> IF promote THEN [move EXCEPT !.pawn_change = TRUE] ELSE move]

\* make_move without lines 143-144: the captured piece stays in its collection.
make_move_KeepsCaptured(B, move) ==
    LET o == move.origin
        d == move.destination
        mp == move.origin_piece
        dp == move.destination_piece
        cleared == [B.grid EXCEPT ![o[2]][o[1]] = Empty]
        grid1 == [cleared EXCEPT ![d[2]][d[1]] = mp]
        position1 == [B.position EXCEPT ![mp] = d]
        capture == dp # Empty
        pieces1 == B.pieces
        score1 == IF capture THEN B.score - value(B, dp) ELSE B.score
        num1 == IF capture THEN B.num_pieces - 1 ELSE B.num_pieces
        promote == ReachesLastRow(B, move)
        behavior1 == IF promote
                     THEN [B.piece_behavior EXCEPT ![mp] = "queen"]
                     ELSE B.piece_behavior
        score2 == IF promote
                  THEN (IF player_of(mp) = White THEN score1 + 16 ELSE score1 - 16)
                  ELSE score1
    IN [board |-> [grid |-> grid1, pieces |-> pieces1, score |-> score2,
                   num_pieces |-> num1, position |-> position1,
                   piece_behavior |-> behavior1],
        move |-> IF promote THEN [move EXCEPT !.pawn_change = TRUE] ELSE move]

\* make_move with line 158 adding 16 as line 153 does: Black's promotion
\* counted with White's sign.
make_move_BlackPromotionAdds(B, move) ==
    LET o == move.origin
        d == move.destination
        mp == move.origin_piece
        dp == move.destination_piece
        cleared == [B.grid EXCEPT ![o[2]][o[1]] = Empty]
        grid1 == [cleared EXCEPT ![d[2]][d[1]] = mp]
        position1 == [B.position EXCEPT ![mp] = d]
        capture == dp # Empty
        pieces1 == IF capture
                   THEN [B.pieces EXCEPT ![player_of(dp)] =
                            DeleteAt(@, IndexOf(@, dp))]
                   ELSE B.pieces
        score1 == IF capture THEN B.score - value(B, dp) ELSE B.score
        num1 == IF capture THEN B.num_pieces - 1 ELSE B.num_pieces
        promote == ReachesLastRow(B, move)
        behavior1 == IF promote
                     THEN [B.piece_behavior EXCEPT ![mp] = "queen"]
                     ELSE B.piece_behavior
        score2 == IF promote
                  THEN score1 + 16
                  ELSE score1
    IN [board |-> [grid |-> grid1, pieces |-> pieces1, score |-> score2,
                   num_pieces |-> num1, position |-> position1,
                   piece_behavior |-> behavior1],
        move |-> IF promote THEN [move EXCEPT !.pawn_change = TRUE] ELSE move]

\* make_move whose promotion makes the pawn a king.
make_move_PromotesToKing(B, move) ==
    LET o == move.origin
        d == move.destination
        mp == move.origin_piece
        dp == move.destination_piece
        cleared == [B.grid EXCEPT ![o[2]][o[1]] = Empty]
        grid1 == [cleared EXCEPT ![d[2]][d[1]] = mp]
        position1 == [B.position EXCEPT ![mp] = d]
        capture == dp # Empty
        pieces1 == IF capture
                   THEN [B.pieces EXCEPT ![player_of(dp)] =
                            DeleteAt(@, IndexOf(@, dp))]
                   ELSE B.pieces
        score1 == IF capture THEN B.score - value(B, dp) ELSE B.score
        num1 == IF capture THEN B.num_pieces - 1 ELSE B.num_pieces
        promote == ReachesLastRow(B, move)
        behavior1 == IF promote
                     THEN [B.piece_behavior EXCEPT ![mp] = "king"]
                     ELSE B.piece_behavior
        score2 == IF promote
                  THEN (IF player_of(mp) = White THEN score1 + 16 ELSE score1 - 16)
                  ELSE score1
    IN [board |-> [grid |-> grid1, pieces |-> pieces1, score |-> score2,
                   num_pieces |-> num1, position |-> position1,
                   piece_behavior |-> behavior1],
        move |-> IF promote THEN [move EXCEPT !.pawn_change = TRUE] ELSE move]

\* make_move without line 134: the origin cell keeps the piece.
make_move_LeavesOrigin(B, move) ==
    LET d == move.destination
        mp == move.origin_piece
        dp == move.destination_piece
        grid1 == [B.grid EXCEPT ![d[2]][d[1]] = mp]
        position1 == [B.position EXCEPT ![mp] = d]
        capture == dp # Empty
        pieces1 == IF capture
                   THEN [B.pieces EXCEPT ![player_of(dp)] =
                            DeleteAt(@, IndexOf(@, dp))]
                   ELSE B.pieces
        score1 == IF capture THEN B.score - value(B, dp) ELSE B.score
        num1 == IF capture THEN B.num_pieces - 1 ELSE B.num_pieces
        promote == ReachesLastRow(B, move)
        behavior1 == IF promote
                     THEN [B.piece_behavior EXCEPT ![mp] = "queen"]
                     ELSE B.piece_behavior
        score2 == IF promote
                  THEN (IF player_of(mp) = White THEN score1 + 16 ELSE score1 - 16)
                  ELSE score1
    IN [board |-> [grid |-> grid1, pieces |-> pieces1, score |-> score2,
                   num_pieces |-> num1, position |-> position1,
                   piece_behavior |-> behavior1],
        move |-> IF promote THEN [move EXCEPT !.pawn_change = TRUE] ELSE move]

\* Board.make_move: the board after the move, and the move object as the
\* call leaves it (pawn_change is written on it).
make_move(B, move) ==
    LET o == move.origin
        d == move.destination
        mp == move.origin_piece
        dp == move.destination_piece
        cleared == [B.grid EXCEPT ![o[2]][o[1]] = Empty]
        grid1 == [cleared EXCEPT ![d[2]][d[1]] = mp]
        position1 == [B.position EXCEPT ![mp] = d]
        capture == dp # Empty
        pieces1 == IF capture
                   THEN [B.pieces EXCEPT ![player_of(dp)] =
                            DeleteAt(@, IndexOf(@, dp))]
                   ELSE B.pieces
        score1 == IF capture THEN B.score - value(B, dp) ELSE B.score
        num1 == IF capture THEN B.num_pieces - 1 ELSE B.num_pieces
        promote == ReachesLastRow(B, move)
        behavior1 == IF promote
                     THEN [B.piece_behavior EXCEPT ![mp] = "queen"]
                     ELSE B.piece_behavior
        score2 == IF promote
                  THEN (IF player_of(mp) = White THEN score1 + 16 ELSE score1 - 16)
                  ELSE score1
    IN [board |-> [grid |-> grid1, pieces |-> pieces1, score |-> score2,
                   num_pieces |-> num1, position |-> position1,
                   piece_behavior |-> behavior1],
        move |-> IF promote THEN [move EXCEPT !.pawn_change = TRUE] ELSE move]

\* unmake_move without line 186: the promoted pawn stays a queen.
unmake_move_KeepsQueen(B, move) ==
    LET o == move.origin
        d == move.destination
        mp == move.origin_piece
        dp == move.destination_piece
        restored == [B.grid EXCEPT ![o[2]][o[1]] = mp]
        capture == dp # Empty
        grid1 == [restored EXCEPT ![d[2]][d[1]] = IF capture THEN dp ELSE Empty]
        pieces1 == IF capture
                   THEN [B.pieces EXCEPT ![player_of(dp)] = Append(@, dp)]
                   ELSE B.pieces
        score1 == IF capture THEN B.score + value(B, dp) ELSE B.score
        num1 == IF capture THEN B.num_pieces + 1 ELSE B.num_pieces
        position1 == [B.position EXCEPT ![mp] = o]
        behavior1 == B.piece_behavior
        score2 == IF move.pawn_change
                  THEN (IF player_of(mp) = White THEN score1 - 16 ELSE score1 + 16)
                  ELSE score1
    IN [board |-> [grid |-> grid1, pieces |-> pieces1, score |-> score2,
                   num_pieces |-> num1, position |-> position1,
                   piece_behavior |-> behavior1],
        move |-> [move EXCEPT !.pawn_change = FALSE]]

\* unmake_move without line 177: the captured piece's value is not given back.
unmake_move_ScoreNotRestored(B, move) ==
    LET o == move.origin
        d == move.destination
        mp == move.origin_piece
        dp == move.destination_piece
        restored == [B.grid EXCEPT ![o[2]][o[1]] = mp]
        capture == dp # Empty
        grid1 == [restored EXCEPT ![d[2]][d[1]] = IF capture THEN dp ELSE Empty]
        pieces1 == IF capture
                   THEN [B.pieces EXCEPT ![player_of(dp)] = Append(@, dp)]
                   ELSE B.pieces
        score1 == B.score
        num1 == IF capture THEN B.num_pieces + 1 ELSE B.num_pieces
        position1 == [B.position EXCEPT ![mp] = o]
        behavior1 == IF move.pawn_change
                     THEN [B.piece_behavior EXCEPT ![mp] = "pawn"]
                     ELSE B.piece_behavior
        score2 == IF move.pawn_change
                  THEN (IF player_of(mp) = White THEN score1 - 16 ELSE score1 + 16)
                  ELSE score1
    IN [board |-> [grid |-> grid1, pieces |-> pieces1, score |-> score2,
                   num_pieces |-> num1, position |-> position1,
                   piece_behavior |-> behavior1],
        move |-> [move EXCEPT !.pawn_change = FALSE]]

\* unmake_move without line 178: the counter is not raised again.
unmake_move_CounterNotRestored(B, move) ==
    LET o == move.origin
        d == move.destination
        mp == move.origin_piece
        dp == move.destination_piece
        restored == [B.grid EXCEPT ![o[2]][o[1]] = mp]
        capture == dp # Empty
        grid1 == [restored EXCEPT ![d[2]][d[1]] = IF capture THEN dp ELSE Empty]
        pieces1 == IF capture
                   THEN [B.pieces EXCEPT ![player_of(dp)] = Append(@, dp)]
                   ELSE B.pieces
        score1 == IF capture THEN B.score + value(B, dp) ELSE B.score
        position1 == [B.position EXCEPT ![mp] = o]
        behavior1 == IF move.pawn_change
                     THEN [B.piece_behavior EXCEPT ![mp] = "pawn"]
                     ELSE B.piece_behavior
        score2 == IF move.pawn_change
                  THEN (IF player_of(mp) = White THEN score1 - 16 ELSE score1 + 16)
                  ELSE score1
    IN [board |-> [grid |-> grid1, pieces |-> pieces1, score |-> score2,
                   num_pieces |-> B.num_pieces, position |-> position1,
                   piece_behavior |-> behavior1],
        move |-> [move EXCEPT !.pawn_change = FALSE]]

\* Board.unmake_move
unmake_move(B, move) ==
    LET o == move.origin
        d == move.destination
        mp == move.origin_piece
        dp == move.destination_piece
        restored == [B.grid EXCEPT ![o[2]][o[1]] = mp]
        capture == dp # Empty
        grid1 == [restored EXCEPT ![d[2]][d[1]] = IF capture THEN dp ELSE Empty]
        pieces1 == IF capture
                   THEN [B.pieces EXCEPT ![player_of(dp)] = Append(@, dp)]
                   ELSE B.pieces
        score1 == IF capture THEN B.score + value(B, dp) ELSE B.score
        num1 == IF capture THEN B.num_pieces + 1 ELSE B.num_pieces
        position1 == [B.position EXCEPT ![mp] = o]
        behavior1 == IF move.pawn_change
                     THEN [B.piece_behavior EXCEPT ![mp] = "pawn"]
                     ELSE B.piece_behavior
        score2 == IF move.pawn_change
                  THEN (IF player_of(mp) = White THEN score1 - 16 ELSE score1 + 16)
                  ELSE score1
    IN [board |-> [grid |-> grid1, pieces |-> pieces1, score |-> score2,
                   num_pieces |-> num1, position |-> position1,
                   piece_behavior |-> behavior1],
        move |-> [move EXCEPT !.pawn_change = FALSE]]


(***************************************************************************)
(* Pieces.py: move generation.                                             *)
(***************************************************************************)

\* _is_valid_move without lines 642-645: the double step is not tied to the
\* starting rank.
Pawn_is_valid_move_NoRankGate(B, vector, current_piece, other_piece) ==
    IF vector[1] = 0 /\ other_piece # Empty THEN FALSE
    ELSE IF vector[1] # 0 /\ other_piece = Empty THEN FALSE
    ELSE TRUE

\* _is_valid_move without lines 639-640: a diagonal step onto an empty
\* square is accepted.
Pawn_is_valid_move_DiagonalOntoEmpty(B, vector, current_piece, other_piece) ==
    IF vector[1] = 0 /\ other_piece # Empty THEN FALSE
    ELSE IF vector[2] = 2 /\ B.position[current_piece][2] # 1 THEN FALSE
    ELSE IF vector[2] = -2 /\ B.position[current_piece][2] # 6 THEN FALSE
    ELSE TRUE

\* Pawn_Behavior._is_valid_move
Pawn_is_valid_move(B, vector, current_piece, other_piece) ==
    IF vector[1] = 0 /\ other_piece # Empty THEN FALSE
    ELSE IF vector[1] # 0 /\ other_piece = Empty THEN FALSE
    ELSE IF vector[2] = 2 /\ B.position[current_piece][2] # 1 THEN FALSE
    ELSE IF vector[2] = -2 /\ B.position[current_piece][2] # 6 THEN FALSE
    ELSE TRUE

\* self._is_valid_move: Piece_Behavior's returns True, Pawn_Behavior overrides it.
Behavior_is_valid_move(B, kind, vector, current_piece, other_piece) ==
    IF kind = "pawn"
    THEN Pawn_is_valid_move(B, vector, current_piece, other_piece)
    ELSE TRUE

\* The inner loop without lines 225-226: a friendly piece does not stop the
\* direction.
RECURSIVE WalkDirection_CapturesFriends(_, _, _, _, _)
WalkDirection_CapturesFriends(B, kind, position, direction, k) ==
    IF k > Len(direction) THEN <<>>
    ELSE
      LET vector == direction[k]
          current_piece == At(B, position)
          new_position == <<position[1] + vector[1], position[2] + vector[2]>>
      IN IF inbounds(new_position) = FALSE THEN <<>>
         ELSE
           LET other_piece == At(B, new_position)
           IN IF FALSE
              THEN <<>>
              ELSE IF Behavior_is_valid_move(B, kind, vector, current_piece,
                                             other_piece) = FALSE
              THEN <<>>
              ELSE <<Move(position, current_piece, new_position, other_piece)>>
                   \o (IF other_piece # Empty
                       THEN <<>>
                       ELSE WalkDirection_CapturesFriends(B, kind, position, direction, k + 1))

\* The inner loop without lines 236-238: the direction goes on behind a
\* captured piece.
RECURSIVE WalkDirection_SlidesThrough(_, _, _, _, _)
WalkDirection_SlidesThrough(B, kind, position, direction, k) ==
    IF k > Len(direction) THEN <<>>
    ELSE
      LET vector == direction[k]
          current_piece == At(B, position)
          new_position == <<position[1] + vector[1], position[2] + vector[2]>>
      IN IF inbounds(new_position) = FALSE THEN <<>>
         ELSE
           LET other_piece == At(B, new_position)
           IN IF other_piece # Empty
                    /\ player_of(other_piece) = player_of(current_piece)
              THEN <<>>
              ELSE IF Behavior_is_valid_move(B, kind, vector, current_piece,
                                             other_piece) = FALSE
              THEN <<>>
              ELSE <<Move(position, current_piece, new_position, other_piece)>>
                   \o WalkDirection_SlidesThrough(B, kind, position, direction, k + 1)

\* The inner loop with continue for break at line 231: a vector that
\* _is_valid_move rejects is skipped and the direction goes on.
RECURSIVE WalkDirection_SkipsInvalid(_, _, _, _, _)
WalkDirection_SkipsInvalid(B, kind, position, direction, k) ==
    IF k > Len(direction) THEN <<>>
    ELSE
      LET vector == direction[k]
          current_piece == At(B, position)
          new_position == <<position[1] + vector[1], position[2] + vector[2]>>
      IN IF inbounds(new_position) = FALSE THEN <<>>
         ELSE
           LET other_piece == At(B, new_position)
           IN IF other_piece # Empty
                    /\ player_of(other_piece) = player_of(current_piece)
              THEN <<>>
              ELSE IF Behavior_is_valid_move(B, kind, vector, current_piece,
                                             other_piece) = FALSE
              THEN WalkDirection_SkipsInvalid(B, kind, position, direction, k + 1)
              ELSE <<Move(position, current_piece, new_position, other_piece)>>
                   \o (IF other_piece # Empty
                       THEN <<>>
                       ELSE WalkDirection_SkipsInvalid(B, kind, position, direction, k + 1))

\* The inner loop of Piece_Behavior.get_moves over one direction, from its
\* k-th vector on: the moves appended until the loop ends or breaks.
RECURSIVE WalkDirection(_, _, _, _, _)
WalkDirection(B, kind, position, direction, k) ==
    IF k > Len(direction) THEN <<>>
    ELSE
      LET vector == direction[k]
          current_piece == At(B, position)
          new_position == <<position[1] + vector[1], position[2] + vector[2]>>
      IN IF inbounds(new_position) = FALSE THEN <<>>
         ELSE
           LET other_piece == At(B, new_position)
           IN IF other_piece # Empty
                    /\ player_of(other_piece) = player_of(current_piece)
              THEN <<>>
              ELSE IF Behavior_is_valid_move(B, kind, vector, current_piece,
                                             other_piece) = FALSE
              THEN <<>>
              ELSE <<Move(position, current_piece, new_position, other_piece)>>
                   \o (IF other_piece # Empty
                       THEN <<>>
                       ELSE WalkDirection(B, kind, position, direction, k + 1))

\* The grid subscripts of the inner loop without the check of lines
\* 220-221: a square off the board is used as a subscript, and the loop
\* ends there.
RECURSIVE WalkReads_Unchecked(_, _, _, _, _)
WalkReads_Unchecked(B, kind, position, direction, k) ==
    IF k > Len(direction) THEN {}
    ELSE
      LET vector == direction[k]
          current_piece == At(B, position)
          new_position == <<position[1] + vector[1], position[2] + vector[2]>>
      IN IF inbounds(new_position) = FALSE THEN {new_position}
         ELSE
           LET other_piece == At(B, new_position)
           IN {new_position} \cup
              (IF other_piece # Empty
                    /\ player_of(other_piece) = player_of(current_piece)
               THEN {}
               ELSE IF Behavior_is_valid_move(B, kind, vector, current_piece,
                                              other_piece) = FALSE
               THEN {}
               ELSE IF other_piece # Empty
               THEN {}
               ELSE WalkReads_Unchecked(B, kind, position, direction, k + 1))

\* The squares the inner loop of Piece_Behavior.get_moves subscripts the
\* grid with (line 223), over one direction from its k-th vector on.
RECURSIVE WalkReads(_, _, _, _, _)
WalkReads(B, kind, position, direction, k) ==
    IF k > Len(direction) THEN {}
    ELSE
      LET vector == direction[k]
          current_piece == At(B, position)
          new_position == <<position[1] + vector[1], position[2] + vector[2]>>
      IN IF inbounds(new_position) = FALSE THEN {}
         ELSE
           LET other_piece == At(B, new_position)
           IN {new_position} \cup
              (IF other_piece # Empty
                    /\ player_of(other_piece) = player_of(current_piece)
               THEN {}
               ELSE IF Behavior_is_valid_move(B, kind, vector, current_piece,
                                              other_piece) = FALSE
               THEN {}
               ELSE IF other_piece # Empty
               THEN {}
               ELSE WalkReads(B, kind, position, direction, k + 1))

\* The squares get_moves subscripts the grid with: the piece's own square
\* (line 205) and those of the inner loop over every direction.
get_moves_reads(B, p) ==
    LET kind == B.piece_behavior[p]
        directions == Directions(kind, player_of(p))
    IN {B.position[p]} \cup
       UNION {WalkReads(B, kind, B.position[p], directions[n], 1) :
                 n \in 1..Len(directions)}

\* The outer loop of Piece_Behavior.get_moves, from the n-th direction on.
RECURSIVE WalkDirections(_, _, _, _, _)
WalkDirections(B, kind, position, directions, n) ==
    IF n > Len(directions) THEN <<>>
    ELSE WalkDirection(B, kind, position, directions[n], 1)
         \o WalkDirections(B, kind, position, directions, n + 1)

\* Piece_Behavior.get_moves(board, position) of a behaviour of the given kind
\* and side.
Behavior_get_moves(B, kind, player, position) ==
    WalkDirections(B, kind, position, Directions(kind, player), 1)

\* Piece.get_moves
get_moves(B, p) ==
    Behavior_get_moves(B, B.piece_behavior[p], player_of(p), B.position[p])

(***************************************************************************)
(* Board.check_check and Board.check_won.                                  *)
(***************************************************************************)

\* A corridor loop without the break at line 221: it looks on behind an
\* occupied square.
RECURSIVE Corridor_SeesThrough(_, _, _, _, _, _, _)
Corridor_SeesThrough(B, player, king_position, dx, dy, types, i) ==
    IF i > 7 THEN FALSE
    ELSE
      LET new_position == <<king_position[1] + i * dx, king_position[2] + i * dy>>
      IN IF ~inbounds(new_position) THEN FALSE
         ELSE
           LET piece == At(B, new_position)
           IN IF piece # Empty /\ player_of(piece) # player
                    /\ piece_type(B, piece) \in types
              THEN TRUE
              ELSE Corridor_SeesThrough(B, player, king_position, dx, dy, types, i + 1)

\* One corridor or diagonal loop of check_check, from step i on: TRUE when
\* the loop returns True, FALSE when it ends or breaks.
RECURSIVE Corridor(_, _, _, _, _, _, _)
Corridor(B, player, king_position, dx, dy, types, i) ==
    IF i > 7 THEN FALSE
    ELSE
      LET new_position == <<king_position[1] + i * dx, king_position[2] + i * dy>>
      IN IF ~inbounds(new_position) THEN FALSE
         ELSE
           LET piece == At(B, new_position)
           IN IF piece # Empty
              THEN player_of(piece) # player /\ piece_type(B, piece) \in types
              ELSE Corridor(B, player, king_position, dx, dy, types, i + 1)

KnightVectors ==
    << <<2, 1>>, <<2, -1>>, <<-2, 1>>, <<-2, -1>>,
       <<1, 2>>, <<1, -2>>, <<-1, 2>>, <<-1, -2>> >>

KingVectors ==
    << <<1, 1>>, <<1, 0>>, <<1, -1>>, <<0, -1>>,
       <<-1, -1>>, <<-1, 0>>, <<-1, 1>>, <<0, 1>> >>

\* The knight loop and the king loop of check_check, from the k-th vector
\* on: both break when a square is out of bounds and after the first
\* occupied square.
RECURSIVE OffsetLoop(_, _, _, _, _, _)
OffsetLoop(B, player, king_position, vectors, kind, k) ==
    IF k > Len(vectors) THEN FALSE
    ELSE
      LET vector == vectors[k]
          new_position == <<king_position[1] + vector[1], king_position[2] + vector[2]>>
      IN IF ~inbounds(new_position) THEN FALSE
         ELSE
           LET piece == At(B, new_position)
           IN IF piece # Empty
              THEN player_of(piece) # player /\ piece_type(B, piece) = kind
              ELSE OffsetLoop(B, player, king_position, vectors, kind, k + 1)

\* The pawn loops with the pawns' own attack vectors instead of the
\* vectors relative to the king.
PawnLoop_Unmirrored(B, player, king_position) ==
    LET vectors == IF player = Black
                   THEN << <<-1, 1>>, <<1, 1>> >>
                   ELSE << <<-1, -1>>, <<1, -1>> >>
    IN \E k \in 1..Len(vectors) :
          LET new_position == <<king_position[1] + vectors[k][1],
                                king_position[2] + vectors[k][2]>>
          IN /\ inbounds(new_position)
             /\ At(B, new_position) # Empty
             /\ player_of(At(B, new_position)) # player
             /\ piece_type(B, At(B, new_position)) = "pawn"

\* The pawn loops of check_check: the vectors are relative to the king; an
\* out-of-bounds square is skipped (continue), nothing breaks.
PawnLoop(B, player, king_position) ==
    LET vectors == IF player = Black
                   THEN << <<-1, -1>>, <<1, -1>> >>
                   ELSE << <<-1, 1>>, <<1, 1>> >>
    IN \E k \in 1..Len(vectors) :
          LET new_position == <<king_position[1] + vectors[k][1],
                                king_position[2] + vectors[k][2]>>
          IN /\ inbounds(new_position)
             /\ At(B, new_position) # Empty
             /\ player_of(At(B, new_position)) # player
             /\ piece_type(B, At(B, new_position)) = "pawn"

\* The squares one corridor or diagonal loop subscripts the grid with, from
\* step i on.
RECURSIVE CorridorReads(_, _, _, _, _)
CorridorReads(B, king_position, dx, dy, i) ==
    IF i > 7 THEN {}
    ELSE
      LET new_position == <<king_position[1] + i * dx, king_position[2] + i * dy>>
      IN IF ~inbounds(new_position) THEN {}
         ELSE {new_position} \cup
              (IF At(B, new_position) # Empty THEN {}
               ELSE CorridorReads(B, king_position, dx, dy, i + 1))

\* The squares the knight loop or the king loop subscripts the grid with,
\* from the k-th vector on.
RECURSIVE OffsetReads(_, _, _, _)
OffsetReads(B, king_position, vectors, k) ==
    IF k > Len(vectors) THEN {}
    ELSE
      LET vector == vectors[k]
          new_position == <<king_position[1] + vector[1], king_position[2] + vector[2]>>
      IN IF ~inbounds(new_position) THEN {}
         ELSE {new_position} \cup
              (IF At(B, new_position) # Empty THEN {}
               ELSE OffsetReads(B, king_position, vectors, k + 1))

\* The squares the pawn loops subscripts the grid with.
PawnReads(B, player, king_position) ==
    LET vectors == IF player = Black
                   THEN << <<-1, -1>>, <<1, -1>> >>
                   ELSE << <<-1, 1>>, <<1, 1>> >>
    IN {new_position \in
           {<<king_position[1] + vectors[k][1], king_position[2] + vectors[k][2]>> :
               k \in 1..Len(vectors)} :
        inbounds(new_position)}

\* The squares check_check subscripts the grid with when none of its loops
\* returns early; a return of True only leaves later ones out.
check_check_reads(B, player) ==
    LET king_position == B.position[kings(player)]
    IN UNION {CorridorReads(B, king_position, d[1], d[2], 1) :
                 d \in {<<1, 0>>, <<-1, 0>>, <<0, 1>>, <<0, -1>>,
                        <<1, 1>>, <<1, -1>>, <<-1, -1>>, <<-1, 1>>}}
       \cup OffsetReads(B, king_position, KnightVectors, 1)
       \cup PawnReads(B, player, king_position)
       \cup OffsetReads(B, king_position, KingVectors, 1)

\* Board.check_check
check_check(B, player) ==
    LET king_position == B.position[kings(player)]
    IN \/ Corridor(B, player, king_position, 1, 0, {"rook", "queen"}, 1)
       \/ Corridor(B, player, king_position, -1, 0, {"rook", "queen"}, 1)
       \/ Corridor(B, player, king_position, 0, 1, {"rook", "queen"}, 1)
       \/ Corridor(B, player, king_position, 0, -1, {"rook", "queen"}, 1)
       \/ Corridor(B, player, king_position, 1, 1, {"bishop", "queen"}, 1)
       \/ Corridor(B, player, king_position, 1, -1, {"bishop", "queen"}, 1)
       \/ Corridor(B, player, king_position, -1, -1, {"bishop", "queen"}, 1)
       \/ Corridor(B, player, king_position, -1, 1, {"bishop", "queen"}, 1)
       \/ OffsetLoop(B, player, king_position, KnightVectors, "knight", 1)
       \/ PawnLoop(B, player, king_position)
       \/ OffsetLoop(B, player, king_position, KingVectors, "king", 1)

\* check_won that looks in the player's own collection.
check_won_OwnSide(B, player) ==
    ~ \E i \in 1..Len(B.pieces[player]) :
         piece_type(B, B.pieces[player][i]) = "king"

\* Board.check_won
check_won(B, player) ==
    LET other_player == OtherPlayer(player)
    IN ~ \E i \in 1..Len(B.pieces[other_player]) :
            piece_type(B, B.pieces[other_player][i]) = "king"

(***************************************************************************)
(* AI_player.py                                                            *)
(***************************************************************************)

\* construct_candidates, from the n-th piece of the side's collection on.
RECURSIVE CandidatesFrom(_, _, _)
CandidatesFrom(B, player, n) ==
    IF n > Len(B.pieces[player]) THEN <<>>
    ELSE get_moves(B, B.pieces[player][n]) \o CandidatesFrom(B, player, n + 1)

\* construct_candidates(board, player)
construct_candidates(B, player) == CandidatesFrom(B, player, 1)


(***************************************************************************)
(* Bounds of the model and the inputs it draws.                            *)
(***************************************************************************)

\* The greatest depth a client passes to AI_choose_move.
MaxDepth == 3

\* The greatest depth Game is constructed with for an AI player.
MaxGameDepth == 1

\* Plies played after the scripted line of user inputs has ended.
MaxFree == 1

\* Rejected submissions within one make_user_move call.
MaxRejects == 1

\* What a user may type for a coordinate: every board coordinate and one
\* value off each edge.
InputCoords == -1..8

\* The attenuation values a client passes, in quarters (2 is 0.5, 3 is 0.75).
Attenuations == {2, 3}

\* attenuation=3/4, the default of AI_choose_move, in quarters.
DefaultAttenuation == 3

\* score_change values are kept as integers in units of 1/Scale: with
\* attenuations in quarters a search of depth d yields multiples of
\* 1/4^(d-1), which Python's floats hold exactly.
RECURSIVE Pow4(_)
Pow4(n) == IF n = 0 THEN 1 ELSE 4 * Pow4(n - 1)

Scale == Pow4(IF MaxDepth > MaxGameDepth THEN MaxDepth ELSE MaxGameDepth)

\* Scripted games, as the four numbers a user types per ply (origin x, y,
\* destination x, y), White first.  Each line is a legal game of this
\* engine from the initial position; the model checks every ply of it with
\* make_user_move's validation.
\* Line1 ends, White to move, with White: rook (0,0), knight (1,0), king
\* (4,0), pawn (0,2) and Black: pawn (7,6), king (3,6), knight (5,2).
Line1 ==
    << <<6, 1, 6, 2>>, <<1, 7, 0, 5>>, <<1, 1, 1, 3>>, <<0, 5, 1, 3>>,
       <<7, 1, 7, 3>>, <<1, 3, 2, 1>>, <<3, 0, 2, 1>>, <<6, 6, 6, 4>>,
       <<7, 3, 6, 4>>, <<4, 6, 4, 4>>, <<2, 1, 2, 6>>, <<3, 7, 6, 4>>,
       <<2, 6, 2, 7>>, <<6, 4, 3, 1>>, <<2, 7, 0, 7>>, <<3, 1, 2, 0>>,
       <<0, 7, 1, 6>>, <<6, 7, 5, 5>>, <<1, 6, 0, 6>>, <<2, 0, 2, 6>>,
       <<0, 6, 2, 6>>, <<5, 7, 2, 4>>, <<2, 6, 2, 4>>, <<4, 7, 4, 6>>,
       <<2, 4, 4, 4>>, <<5, 5, 6, 3>>, <<4, 4, 7, 7>>, <<6, 3, 5, 1>>,
       <<7, 7, 5, 5>>, <<5, 1, 7, 0>>, <<5, 5, 5, 6>>, <<7, 0, 6, 2>>,
       <<5, 6, 5, 2>>, <<6, 2, 4, 1>>, <<0, 1, 0, 2>>, <<4, 1, 6, 0>>,
       <<5, 0, 7, 2>>, <<6, 0, 5, 2>>, <<7, 2, 3, 6>>, <<4, 6, 3, 6>> >>

\* Line2 ends, Black to move, with White: rook (4,5), knight (1,0), king
\* (3,1), pawn (3,6) and Black: king (4,7) alone.
Line2 ==
    << <<7, 1, 7, 3>>, <<1, 7, 0, 5>>, <<7, 3, 7, 4>>, <<6, 7, 5, 5>>,
       <<4, 1, 4, 3>>, <<5, 5, 7, 4>>, <<3, 0, 7, 4>>, <<1, 6, 1, 5>>,
       <<5, 0, 0, 5>>, <<2, 7, 0, 5>>, <<7, 4, 7, 6>>, <<7, 7, 7, 6>>,
       <<7, 0, 7, 6>>, <<3, 7, 1, 7>>, <<7, 6, 6, 6>>, <<5, 7, 6, 6>>,
       <<5, 1, 5, 2>>, <<6, 6, 1, 1>>, <<2, 0, 1, 1>>, <<5, 6, 5, 4>>,
       <<4, 3, 5, 4>>, <<1, 5, 1, 4>>, <<1, 1, 2, 0>>, <<0, 5, 2, 7>>,
       <<6, 1, 6, 2>>, <<2, 7, 1, 6>>, <<0, 1, 0, 3>>, <<1, 6, 5, 2>>,
       <<0, 3, 1, 4>>, <<2, 6, 2, 5>>, <<6, 0, 5, 2>>, <<1, 7, 6, 2>>,
       <<0, 0, 0, 6>>, <<6, 2, 5, 2>>, <<1, 4, 2, 5>>, <<5, 2, 5, 4>>,
       <<0, 6, 0, 7>>, <<5, 4, 2, 1>>, <<2, 5, 3, 6>>, <<2, 1, 2, 0>>,
       <<0, 7, 0, 5>>, <<2, 0, 3, 1>>, <<4, 0, 3, 1>>, <<4, 6, 4, 5>>,
       <<0, 5, 4, 5>> >>

Line3 ==
    << <<4, 1, 4, 2>>, <<0, 6, 0, 5>>, <<5, 0, 0, 5>>, <<0, 7, 0, 5>>,
       <<5, 1, 5, 2>>, <<0, 5, 0, 1>>, <<0, 0, 0, 1>>, <<5, 6, 5, 5>>,
       <<0, 1, 0, 3>>, <<6, 6, 6, 5>>, <<3, 1, 3, 3>>, <<2, 6, 2, 4>>,
       <<3, 3, 2, 4>>, <<6, 7, 7, 5>>, <<3, 0, 3, 6>>, <<3, 7, 3, 6>>,
       <<0, 3, 0, 2>>, <<3, 6, 5, 4>>, <<1, 0, 2, 2>>, <<5, 4, 2, 1>>,
       <<6, 1, 6, 3>>, <<2, 1, 2, 0>>, <<0, 2, 0, 5>>, <<2, 7, 6, 3>>,
       <<5, 2, 6, 3>>, <<7, 5, 6, 3>>, <<0, 5, 5, 5>>, <<2, 0, 4, 2>>,
       <<5, 5, 6, 5>>, <<6, 3, 7, 1>>, <<7, 0, 7, 1>>, <<4, 2, 2, 2>>,
       <<1, 1, 2, 2>>, <<4, 7, 5, 6>>, <<7, 1, 7, 6>>, <<7, 7, 7, 6>>,
       <<6, 5, 5, 5>>, <<7, 6, 7, 4>>, <<5, 5, 1, 5>>, <<7, 4, 2, 4>>,
       <<1, 5, 1, 6>>, <<2, 4, 2, 2>>, <<1, 6, 1, 7>>, <<2, 2, 6, 2>>,
       <<1, 7, 5, 7>>, <<6, 2, 6, 0>>, <<4, 0, 5, 1>>, <<4, 6, 4, 4>>,
       <<5, 1, 6, 0>>, <<4, 4, 4, 3>>, <<5, 7, 6, 7>>, <<4, 3, 4, 2>>,
       <<6, 7, 7, 7>>, <<4, 2, 4, 1>>, <<6, 0, 5, 0>> >>

\* Line 1 is the empty script (the game is free from the first ply).
\* Line2, then the Black king steps aside and back while a White knight
\* moves: White is to move with the Black king in reach of rook and pawn.
Line4 == Line2 \o << <<4, 7, 5, 7>>, <<1, 0, 2, 2>>, <<5, 7, 4, 7>> >>

Lines == << <<>>, Line1, Line2, Line3, Line4 >>

\* The lines at whose end a client calls AI_choose_move.
ClientLines == 2..4

\* range(10000) in play_game.
MaxTurns == 10000

(***************************************************************************)
(* The state.                                                              *)
(***************************************************************************)
VARIABLES
    board,      \* Game.board: the Board and its pieces' attributes
    players,    \* Game.players: per side, kind ("user" or "AI") and depth
    turn,       \* Game.turn
    round,      \* the loop variable of play_game
    player,     \* the side whose do_turn is running (or runs next)
    pc,         \* where the program is: "do_turn", "search", "chosen",
                \*   "crashed" (uncaught exception), "over" (play_game returned)
    caller,     \* who called AI_choose_move: "AI_make_move" or "client"
    call,       \* the arguments of the outermost AI_choose_move call
    frames,     \* the activations of AI_choose_move, outermost first
    result,     \* the move the outermost AI_choose_move returned
    entry,      \* the board when the outermost AI_choose_move was called
    outcome,    \* what the last do_turn returned: the four flags
    msg,        \* the last message make_user_move printed, "" if none
    rejects,    \* rejected submissions in the running make_user_move
    line,       \* which scripted line the users follow
    step,       \* plies of the line played
    free        \* plies played after the line ended

vars == <<board, players, turn, round, player, pc, caller, call, frames, result,
          entry, outcome, msg, rejects, line, step, free>>

NoOutcome == [white_check |-> FALSE, black_check |-> FALSE,
              white_won |-> FALSE, black_won |-> FALSE]

NoCall == [player |-> White, depth |-> 0, attenuation |-> DefaultAttenuation]

User == [kind |-> "user", depth |-> NoDepth]
AI(depth) == [kind |-> "AI", depth |-> depth]

\* Game.__init__ (with Board.__init__), for the arguments the model draws:
\* two users following one of the lines, or at least one AI player and the
\* empty line.
Init ==
    /\ board = NewBoard
    /\ turn = 0
    /\ round = 0
    /\ player = White
    /\ pc = "do_turn"
    /\ caller = "none"
    /\ call = NoCall
    /\ frames = <<>>
    /\ result = NullMove
    /\ entry = NewBoard
    /\ outcome = NoOutcome
    /\ msg = ""
    /\ rejects = 0
    /\ step = 0
    /\ free = 0
    /\ \/ /\ line \in 1..Len(Lines)
          /\ players = [s \in Sides |-> User]
       \/ /\ line = 1
          /\ \E wd, bd \in 0..MaxGameDepth :
                \/ players = [s \in Sides |-> IF s = White THEN AI(wd) ELSE User]
                \/ players = [s \in Sides |-> IF s = White THEN User ELSE AI(bd)]
                \/ players = [s \in Sides |-> IF s = White THEN AI(wd) ELSE AI(bd)]


(***************************************************************************)
(* Game.py: one user submission, and the end of a turn.                    *)
(***************************************************************************)

\* <kind>_Behavior._summary
PieceSummary(kind, side) ==
    LET k == CASE kind = "rook" -> "Rk" [] kind = "knight" -> "Kt"
               [] kind = "bishop" -> "Bs" [] kind = "queen" -> "Qn"
               [] kind = "king" -> "Kg" [] kind = "pawn" -> "Pw"
    IN <<IF side = White THEN "W" ELSE "B", k>>

\* Move.summary: "%s from %s to %s" of the piece's summary, the origin and
\* the destination, kept as the triple the string is formatted from.
MoveSummary(B, move) ==
    <<PieceSummary(B.piece_behavior[move.origin_piece], player_of(move.origin_piece)),
      move.origin, move.destination>>

\* is_valid_move that accepts every move.
is_valid_move_AcceptsAll(B, move) == TRUE

\* is_valid_move that also refuses a move after which the mover's own king
\* is in check.
is_valid_move_RefusesSelfCheck(B, move) ==
    LET piece_moves == get_moves(B, move.origin_piece)
        move_summaries == {MoveSummary(B, piece_moves[k]) : k \in 1..Len(piece_moves)}
    IN /\ MoveSummary(B, move) \in move_summaries
       /\ ~check_check(make_move(B, move).board, player_of(move.origin_piece))

\* Game.is_valid_move
is_valid_move(B, move) ==
    LET piece_moves == get_moves(B, move.origin_piece)
        move_summaries == {MoveSummary(B, piece_moves[k]) : k \in 1..Len(piece_moves)}
    IN MoveSummary(B, move) \in move_summaries

\* do_turn after its move is made: the four flags it returns.
TurnFlags(B) ==
    [white_check |-> check_check(B, White),
     black_check |-> check_check(B, Black),
     white_won |-> check_won(B, White),
     black_won |-> check_won(B, Black)]

\* EndTurn that counts a turn after every ply.
EndTurn_CountsEveryPly(B) ==
    LET flags == TurnFlags(B)
    IN /\ outcome' = flags
       /\ turn' = turn + 1
       /\ IF flags.white_won \/ flags.black_won
          THEN pc' = "over" /\ UNCHANGED <<player, round>>
          ELSE IF player = White
          THEN pc' = "do_turn" /\ player' = Black /\ UNCHANGED round
          ELSE IF round + 1 < MaxTurns
          THEN pc' = "do_turn" /\ player' = White /\ round' = round + 1
          ELSE pc' = "over" /\ UNCHANGED <<player, round>>

\* The rest of do_turn once the move is on board B (the checks, the turn
\* count) and play_game's loop around it: stop when a side won, pass the
\* turn to the other side otherwise, for at most MaxTurns rounds.
EndTurn(B) ==
    LET flags == TurnFlags(B)
    IN /\ outcome' = flags
       /\ turn' = IF player = Black THEN turn + 1 ELSE turn
       /\ IF flags.white_won \/ flags.black_won
          THEN pc' = "over" /\ UNCHANGED <<player, round>>
          ELSE IF player = White
          THEN pc' = "do_turn" /\ player' = Black /\ UNCHANGED round
          ELSE IF round + 1 < MaxTurns
          THEN pc' = "do_turn" /\ player' = White /\ round' = round + 1
          ELSE pc' = "over" /\ UNCHANGED <<player, round>>

\* The users follow the line; once it has ended, MaxFree further plies are played.
OnScript == step < Len(Lines[line])

\* A ply is played: the next ply of the line, or one of the free plies.
Advance ==
    IF OnScript THEN step' = step + 1 /\ UNCHANGED free
    ELSE free' = free + 1 /\ UNCHANGED step

\* What the user types: the next ply of the line while it lasts, anything
\* afterwards.
UserInputs ==
    IF OnScript THEN {Lines[line][step + 1]}
    ELSE IF free < MaxFree
    THEN InputCoords \X InputCoords \X InputCoords \X InputCoords
    ELSE {}

\* make_user_move prints a message and asks again.
RejectSubmission(message) ==
    /\ rejects < MaxRejects
    /\ msg' = message
    /\ rejects' = rejects + 1
    /\ UNCHANGED <<board, players, turn, round, player, pc, caller, call, frames,
                   result, entry, outcome, line, step, free>>

\* One pass of the loop of make_user_move on the four numbers typed, and,
\* when the move is valid, the make_move after the loop and the rest of
\* do_turn.
UserSubmit(origin_x, origin_y, target_x, target_y) ==
    /\ IF inbounds(<<origin_x, origin_y>>) = FALSE
       THEN RejectSubmission("Starting position was out of bounds")
       ELSE IF inbounds(<<target_x, target_y>>) = FALSE
       THEN RejectSubmission("Ending position was out of bounds")
       ELSE
         LET origin_piece == board.grid[origin_y][origin_x]
             target_piece == board.grid[target_y][target_x]
         IN IF origin_piece = Empty
            THEN RejectSubmission("Piece is empty")
            ELSE IF player_of(origin_piece) # player
            THEN RejectSubmission("You can't move the other player's piece")
            ELSE
              LET user_move == Move(<<origin_x, origin_y>>, origin_piece,
                                    <<target_x, target_y>>, target_piece)
              IN IF is_valid_move(board, user_move) = FALSE
                 THEN RejectSubmission("Move was not valid")
                 ELSE /\ board' = make_move(board, user_move).board
                      /\ msg' = ""
                      /\ rejects' = 0
                      /\ Advance
                      /\ EndTurn(board')
                      /\ UNCHANGED <<players, caller, call, frames, result, entry,
                                     line>>

\* do_turn for a user: make_user_move reads a submission.
UserTurn ==
    /\ pc = "do_turn"
    /\ players[player].kind = "user"
    /\ \E input \in UserInputs :
          UserSubmit(input[1], input[2], input[3], input[4])

(***************************************************************************)
(* AI_player.py: the search, one activation of AI_choose_move per frame.   *)
(***************************************************************************)

\* AI_choose_move is entered: its arguments and, unless depth is 0, the
\* candidates it constructs.  i counts the candidates already tried, saved
\* is the board as it was before the candidate being tried was made.
Enter(B, side, depth, attenuation) ==
    [player |-> side, depth |-> depth, attenuation |-> attenuation,
     candidates |-> IF depth = 0 THEN <<>> ELSE construct_candidates(B, side),
     i |-> 0, current_score |-> 0, saved |-> B]

\* depth == 0, or len(candidates) == 0: Move() is returned.
IsBase(f) == f.depth = 0 \/ Len(f.candidates) = 0

\* Finished for a search that gives up after two candidates.
Finished_StopsEarly(f) == IsBase(f) \/ f.i = Len(f.candidates) \/ f.i >= 2

\* The activation has nothing left to try.
Finished(f) == IsBase(f) \/ f.i = Len(f.candidates)

\* BestScore with max() for both players.
BestScore_MaxForBoth(f) ==
    LET scores == {f.candidates[k].score_change : k \in 1..Len(f.candidates)}
    IN CHOOSE b \in scores : \A x \in scores : x <= b

\* max / min of score_change over the candidates.
BestScore(f) ==
    LET scores == {f.candidates[k].score_change : k \in 1..Len(f.candidates)}
    IN IF f.player = White
       THEN CHOOSE b \in scores : \A x \in scores : x <= b
       ELSE CHOOSE b \in scores : \A x \in scores : b <= x

\* Returned without the selection of lines 53-67: any candidate may come
\* back.
Returned_AnyCandidate(f) ==
    IF IsBase(f) THEN {NullMove}
    ELSE {f.candidates[k] : k \in 1..Len(f.candidates)}

\* Returned with a base case that returns the board's score instead of 0.
Returned_LeafScore(f) ==
    IF IsBase(f) THEN {[NullMove EXCEPT !.score_change = f.saved.score * Scale]}
    ELSE {f.candidates[k] : k \in {j \in 1..Len(f.candidates) :
                                     f.candidates[j].score_change = BestScore(f)}}

\* What the activation may return: Move() in the base case, else any of
\* the candidates tied for the best score_change (random.choice).
Returned(f) ==
    IF IsBase(f) THEN {NullMove}
    ELSE {f.candidates[k] : k \in {j \in 1..Len(f.candidates) :
                                     f.candidates[j].score_change = BestScore(f)}}

\* The attenuation the recursive call runs with: the call passes none, so
\* the callee takes the default.
NestedAttenuation(f) == DefaultAttenuation

\* do_turn calls AI_make_move, which calls AI_choose_move.
AICall ==
    /\ pc = "do_turn"
    /\ players[player].kind = "AI"
    /\ free < MaxFree
    /\ pc' = "search"
    /\ caller' = "AI_make_move"
    /\ call' = [player |-> player, depth |-> players[player].depth,
                attenuation |-> DefaultAttenuation]
    /\ entry' = board
    /\ frames' = <<Enter(board, player, players[player].depth, DefaultAttenuation)>>
    /\ UNCHANGED <<board, players, turn, round, player, result, outcome, msg,
                   rejects, line, step, free>>

\* A client calls AI_choose_move on the game's board where a scripted line
\* has just ended; the model follows the call to its return.
ClientCall(side, depth, attenuation) ==
    /\ pc = "do_turn"
    /\ line \in ClientLines /\ ~OnScript /\ free = 0 /\ rejects = 0
    /\ pc' = "search"
    /\ caller' = "client"
    /\ call' = [player |-> side, depth |-> depth, attenuation |-> attenuation]
    /\ entry' = board
    /\ frames' = <<Enter(board, side, depth, attenuation)>>
    /\ UNCHANGED <<board, players, turn, round, player, result, outcome, msg,
                   rejects, line, step, free>>

\* The loop body up to the recursive call: the score is stored, the next
\* candidate is made, AI_choose_move is entered for the other player.
Descend ==
    /\ pc = "search"
    /\ LET top == Len(frames)
           f == frames[top]
       IN /\ ~Finished(f)
          /\ LET made == make_move(board, f.candidates[f.i + 1])
             IN /\ board' = made.board
                /\ frames' = [frames EXCEPT ![top] =
                                 [f EXCEPT !.current_score = board.score,
                                           !.candidates[f.i + 1] = made.move,
                                           !.saved = board]]
                             \o <<Enter(made.board, OtherPlayer(f.player),
                                        f.depth - 1, NestedAttenuation(f))>>
    /\ UNCHANGED <<players, turn, round, player, pc, caller, call, result, entry,
                   outcome, msg, rejects, line, step, free>>

\* candidate.score_change, in units of 1/Scale.
ScoreChange(B, f, next_move) ==
    (B.score - f.current_score) * Scale
        + (next_move.score_change * f.attenuation) \div 4

\* ReturnNested without line 51: the candidate is scored and left on the
\* board.
ReturnNested_NoUnmake ==
    /\ pc = "search"
    /\ Len(frames) >= 2
    /\ LET top == Len(frames)
           g == frames[top]
           f == frames[top - 1]
       IN /\ Finished(g)
          /\ \E next_move \in Returned(g) :
                frames' = [SubSeq(frames, 1, top - 1) EXCEPT ![top - 1] =
                              [f EXCEPT !.candidates[f.i + 1].score_change =
                                            ScoreChange(board, f, next_move),
                                        !.i = f.i + 1]]
    /\ UNCHANGED <<board, players, turn, round, player, pc, caller, call, result,
                   entry, outcome, msg, rejects, line, step, free>>

\* A nested activation returns; its caller records the candidate's
\* score_change and unmakes the candidate.
ReturnNested ==
    /\ pc = "search"
    /\ Len(frames) >= 2
    /\ LET top == Len(frames)
           g == frames[top]
           f == frames[top - 1]
       IN /\ Finished(g)
          /\ \E next_move \in Returned(g) :
                LET candidate == [f.candidates[f.i + 1] EXCEPT
                                     !.score_change = ScoreChange(board, f, next_move)]
                    unmade == unmake_move(board, candidate)
                IN /\ board' = unmade.board
                   /\ frames' = [SubSeq(frames, 1, top - 1) EXCEPT ![top - 1] =
                                    [f EXCEPT !.candidates[f.i + 1] = unmade.move,
                                              !.i = f.i + 1]]
    /\ UNCHANGED <<players, turn, round, player, pc, caller, call, result, entry,
                   outcome, msg, rejects, line, step, free>>

\* The outermost activation returns its move to whoever called it.
ReturnRoot ==
    /\ pc = "search"
    /\ Len(frames) = 1
    /\ Finished(frames[1])
    /\ \E move \in Returned(frames[1]) : result' = move
    /\ frames' = <<>>
    /\ pc' = "chosen"
    /\ UNCHANGED <<board, players, turn, round, player, caller, call, entry,
                   outcome, msg, rejects, line, step, free>>

\* AI_make_move after AI_choose_move returned: the print reads
\* move.origin_piece.summary, which raises AttributeError on Move();
\* otherwise the move is made and do_turn goes on.
AICommit ==
    /\ pc = "chosen"
    /\ caller = "AI_make_move"
    /\ caller' = "none"
    /\ IF result.origin_piece = NoPiece
       THEN /\ pc' = "crashed"
            /\ UNCHANGED <<board, turn, round, player, outcome, step, free>>
       ELSE /\ board' = make_move(board, result).board
            /\ Advance
            /\ EndTurn(board')
    /\ UNCHANGED <<players, call, frames, result, entry, msg, rejects, line>>

Next ==
    \/ UserTurn
    \/ AICall
    \/ \E side \in Sides, depth \in 0..MaxDepth, attenuation \in Attenuations :
          ClientCall(side, depth, attenuation)
    \/ Descend
    \/ ReturnNested
    \/ ReturnRoot
    \/ AICommit

Spec == Init /\ [][Next]_vars

\* AI_choose_move is sequential code: once called it keeps executing, so a
\* step of the search that can be taken is taken.
SearchSpec == Spec /\ WF_vars(Descend \/ ReturnNested \/ ReturnRoot)


(***************************************************************************)
(* Properties.                                                             *)
(***************************************************************************)

\* What can be observed of a board: the grid, every piece's square and
\* kind, the score, the counter and who is in each side's collection.
Members(B, side) == {B.pieces[side][k] : k \in 1..Len(B.pieces[side])}

Observe(B) ==
    [grid |-> B.grid, position |-> B.position,
     piece_behavior |-> B.piece_behavior, score |-> B.score,
     num_pieces |-> B.num_pieces,
     members |-> [side \in Sides |-> Members(B, side)]]

LivePieces(B) == Members(B, White) \cup Members(B, Black)

\* The moves get_moves returns for p, as a set.
MovesOf(B, p) ==
    LET moves == get_moves(B, p)
    IN {moves[k] : k \in 1..Len(moves)}

\* make_move(m) then unmake_move(m) on B.
RoundTrip(B, m) ==
    LET made == make_move(B, m)
    IN unmake_move(made.board, made.move).board

\* C1. Move reversibility: in every board state between two turns, for
\* every move get_moves returns for a live piece of either side,
\* make_move then unmake_move gives back the same grid, squares, kinds,
\* score, num_pieces and collection members; and whenever the search has
\* unmade a candidate, the board is observably the one it made it on.
MoveReversibility ==
    /\ pc = "do_turn" =>
          \A p \in LivePieces(board) : \A m \in MovesOf(board, p) :
             Observe(RoundTrip(board, m)) = Observe(board)
    /\ (pc = "search" /\ frames[Len(frames)].i >= 1) =>
          Observe(board) = Observe(frames[Len(frames)].saved)

\* C1 witness: the search has made and unmade a pawn's capture onto the
\* last row (a capture and a promotion at once) and the board is restored.
ReversedCapturingPromotion ==
    /\ pc = "search"
    /\ frames[Len(frames)].i >= 1
    /\ LET f == frames[Len(frames)]
           c == f.candidates[f.i]
       IN /\ c.destination_piece # Empty
          /\ piece_type(board, c.origin_piece) = "pawn"
          /\ c.destination[2] = 7
          /\ Observe(board) = Observe(f.saved)

\* The sum of the signed values of the pieces in a set.
RECURSIVE SumValues(_, _)
SumValues(B, ps) ==
    IF ps = {} THEN 0
    ELSE LET p == CHOOSE q \in ps : TRUE
         IN value(B, p) + SumValues(B, ps \ {p})

\* C2. Score invariant: in every state, between turns and at every point
\* of a search, score is the sum of the signed values of the pieces in the
\* two collections, a promoted pawn counting as a queen.
ScoreInvariant ==
    board.score = SumValues(board, LivePieces(board))

\* A pawn that has become a queen.
Promoted(B, p) == InitType(p) = "pawn" /\ B.piece_behavior[p] = "queen"

\* C2 witness: inside a search, after at least one candidate was unmade, a
\* promoted pawn is on the board and another piece has been captured on
\* the way.
PromotedPawnInSearch ==
    /\ pc = "search"
    /\ Len(frames) >= 2
    /\ frames[1].i >= 1
    /\ \E p \in LivePieces(board) : Promoted(board, p)
    /\ board.num_pieces < entry.num_pieces

\* How many times p appears in the two collections together.
Occurrences(B, p) ==
    Cardinality({k \in 1..Len(B.pieces[White]) : B.pieces[White][k] = p})
    + Cardinality({k \in 1..Len(B.pieces[Black]) : B.pieces[Black][k] = p})

\* C3. Grid/collection consistency: in every state every piece of a
\* collection stands on the cell its position names, every occupied cell
\* holds a piece that is exactly once in exactly one collection, and no
\* piece is on two cells.
GridCollectionConsistency ==
    /\ \A side \in Sides : \A k \in 1..Len(board.pieces[side]) :
          At(board, board.position[board.pieces[side][k]]) = board.pieces[side][k]
    /\ \A sq \in Squares :
          At(board, sq) # Empty => Occurrences(board, At(board, sq)) = 1
    /\ \A p \in PieceIds :
          Cardinality({sq \in Squares : At(board, sq) = p}) <= 1

\* C3 witness: inside a search a captured piece was put back (its
\* collection is no longer in construction order) and a further capture is
\* on the board.
CaptureRestoredAndCaptured ==
    /\ pc = "search"
    /\ \E side \in Sides : \E k \in 1..(Len(board.pieces[side]) - 1) :
          board.pieces[side][k] > board.pieces[side][k + 1]
    /\ board.num_pieces < entry.num_pieces

\* C4. The search returns its move unexecuted: when the outermost
\* AI_choose_move has returned, the board is observably the one it was
\* called on.
SearchLeavesBoard ==
    pc = "chosen" => Observe(board) = Observe(entry)

\* C4 witness: a search of depth 2 or more has returned a move, and it made
\* and undid captures on the way (a collection changed its order).
DeepSearchReturned ==
    /\ pc = "chosen"
    /\ call.depth >= 2
    /\ result.origin # None
    /\ board.pieces # entry.pieces

\* The moves in a sequence, score_change put aside.
Plain(move) == [move EXCEPT !.score_change = 0]

\* The outermost activation returns in this step, not in the base case.
RootChooses ==
    /\ pc = "search"
    /\ pc' = "chosen"
    /\ ~IsBase(frames[1])

\* C5. Search selection: for depth >= 1 and a side with at least one move,
\* the move returned is one of the moves generated for that side on the
\* current board, and its score_change is the maximum over the candidates
\* for White, the minimum for Black.
SearchSelection ==
    [][RootChooses =>
          LET f == frames[1]
              generated == construct_candidates(board, f.player)
          IN /\ f.depth >= 1
             /\ Plain(result') \in {generated[k] : k \in 1..Len(generated)}
             /\ \A k \in 1..Len(f.candidates) :
                   IF f.player = White
                   THEN f.candidates[k].score_change <= result'.score_change
                   ELSE f.candidates[k].score_change >= result'.score_change
             /\ \E k \in 1..Len(f.candidates) :
                   f.candidates[k].score_change = result'.score_change
    ]_vars

\* C5 witness: a search has returned for Black a move with a negative
\* score_change, the minimum of its candidates.
BlackChoseAmongUnequal ==
    /\ pc = "chosen"
    /\ call.player = Black
    /\ result.origin # None
    /\ result.score_change < 0

\* The score_change of the best continuation for side on B, searched depth
\* plies deep with the attenuation a (in quarters) at every ply, in units
\* of 1/Scale.
RECURSIVE BestContinuation(_, _, _, _)
BestContinuation(B, side, depth, a) ==
    LET candidates == construct_candidates(B, side)
        after(k) == make_move(B, candidates[k]).board
        scores == {(after(k).score - B.score) * Scale
                     + (a * BestContinuation(after(k), OtherPlayer(side), depth - 1, a)) \div 4 :
                   k \in 1..Len(candidates)}
    IN IF depth = 0 \/ Len(candidates) = 0 THEN 0
       ELSE IF side = White
       THEN CHOOSE b \in scores : \A x \in scores : x <= b
       ELSE CHOOSE b \in scores : \A x \in scores : b <= x

\* C6. Attenuated score recurrence: when the outermost activation has gone
\* through its candidates, each candidate c has score_change = (score
\* after c - score before c) + a * D, with a the caller's attenuation and D
\* the best continuation of the opponent at depth - 1 under the same a at
\* every ply.
AttenuatedRecurrence ==
    (pc = "search" /\ Len(frames) = 1 /\ Finished(frames[1]) /\ ~IsBase(frames[1])) =>
       \A k \in 1..Len(frames[1].candidates) :
          LET f == frames[1]
              c == f.candidates[k]
              after == make_move(board, c).board
              D == BestContinuation(after, OtherPlayer(f.player), f.depth - 1,
                                    call.attenuation)
          IN c.score_change =
                (after.score - board.score) * Scale + (call.attenuation * D) \div 4

\* C6 witness: a call with attenuation 1/2 and depth 3 has gone through its
\* candidates, so that material changes two plies below the root were
\* weighted.
HalfAttenuationDepthThree ==
    /\ pc = "search"
    /\ Len(frames) = 1
    /\ Finished(frames[1])
    /\ call.depth = 3
    /\ call.attenuation = 2
    /\ \E k \in 1..Len(frames[1].candidates) :
          frames[1].candidates[k].score_change % Scale # 0

\* Some live piece of the other side has a generated move onto side's king.
AttackedByMoves(B, side) ==
    \E p \in Members(B, OtherPlayer(side)) : \E m \in MovesOf(B, p) :
       m.destination = B.position[kings(side)]

\* C7. Check detection agrees with move generation: in every state where
\* side's king is live, check_check(side) is true exactly when a live
\* opposing piece has a generated move onto the king's square.
CheckAgreesWithMoves ==
    \A side \in Sides :
       kings(side) \in Members(board, side) =>
          (check_check(board, side) <=> AttackedByMoves(board, side))

\* C7 witness: a live knight has a generated move onto the live king of the
\* other side, and check_check says that king is not in check.
KnightAttackUnseen ==
    \E side \in Sides :
       /\ kings(side) \in Members(board, side)
       /\ \E p \in Members(board, OtherPlayer(side)) :
             /\ piece_type(board, p) = "knight"
             /\ \E m \in MovesOf(board, p) :
                   m.destination = board.position[kings(side)]
       /\ ~check_check(board, side)

\* C8. A null move is never committed: when AI_choose_move has returned the
\* null move to AI_make_move, the turn leaves the board unchanged and
\* completes without an error.
NullMoveNotCommitted ==
    [][(pc = "chosen" /\ caller = "AI_make_move" /\ result.origin = None) =>
          (board' = board /\ pc' # "crashed")]_vars

\* C8 witness: AI_make_move has raised on the null move of a depth-0 AI.
AITurnRaised ==
    /\ pc = "crashed"
    /\ call.depth = 0
    /\ result.origin = None
    /\ board = entry

\* C9. Search base case: an activation with depth 0, or for a side whose
\* pieces generate no move on the board it was entered on, tries no
\* candidate and leaves the board as it found it, and what it returns is a
\* null move with score_change 0: the outermost call's result is Move(),
\* and a nested call adds nothing to its caller's candidate.
SearchBaseCase ==
    [][(/\ pc = "search"
        /\ \/ frames[Len(frames)].depth = 0
           \/ Len(construct_candidates(frames[Len(frames)].saved,
                                       frames[Len(frames)].player)) = 0) =>
          LET top == Len(frames)
              g == frames[top]
          IN /\ g.i = 0
             /\ board = g.saved
             /\ top = 1 =>
                   /\ result'.origin = None
                   /\ result'.origin_piece = NoPiece
                   /\ result'.destination = None
                   /\ result'.score_change = 0
                   /\ board' = board
             /\ top >= 2 =>
                   LET f == frames[top - 1]
                   IN frames'[top - 1].candidates[f.i + 1].score_change =
                         (board.score - f.current_score) * Scale
    ]_vars

\* C9 witness: a nested activation with depth >= 1 is entered for a side
\* that has no move left (its last piece was captured in the search), after
\* the outermost activation completed a candidate through depth-0 calls.
NoCandidateActivation ==
    /\ pc = "search"
    /\ Len(frames) >= 2
    /\ frames[Len(frames)].depth >= 1
    /\ Len(construct_candidates(board, frames[Len(frames)].player)) = 0
    /\ frames[1].i >= 1

\* C10. Human move validation: in a user's turn the board changes only by
\* make_move of a move that get_moves returns for a piece of the player to
\* move, between squares in bounds, and a rejected submission leaves the
\* board unchanged, sets a message and leaves the same player to be asked
\* again.
UserMoveValidation ==
    [][(pc = "do_turn" /\ players[player].kind = "user" /\ pc' # "search") =>
          IF rejects' = rejects + 1
          THEN /\ board' = board
               /\ pc' = "do_turn"
               /\ player' = player
               /\ turn' = turn
               /\ msg' # ""
          ELSE \E p \in Members(board, player) : \E m \in MovesOf(board, p) :
                  /\ inbounds(m.origin)
                  /\ inbounds(m.destination)
                  /\ At(board, m.origin) = p
                  /\ board' = make_move(board, m).board
    ]_vars

\* C10 witness: after the moves of a line were applied, a submission whose
\* destination is not in the piece's legal set has been rejected.
InvalidMoveRejected ==
    /\ pc = "do_turn"
    /\ step > 0
    /\ rejects = 1
    /\ msg = "Move was not valid"

\* There is a king among the pieces of side's collection.
HasKing(B, side) ==
    \E p \in Members(B, side) : piece_type(B, p) = "king"

\* C11. Loss detection: in every state check_won(player) is true exactly
\* when the other side's collection holds no king, whatever the grid, the
\* score, the checks and the kings table say.
LossDetection ==
    \A side \in Sides :
       check_won(board, side) <=> ~HasKing(board, OtherPlayer(side))

\* C11 witness: Black's king has been captured, the kings table still names
\* it, and check_won is true for White and false for Black.
KingCapturedWon ==
    /\ kings(Black) \notin Members(board, Black)
    /\ board.position[kings(Black)] \in Squares
    /\ check_won(board, White)
    /\ ~check_won(board, Black)

\* C12. Capture exclusivity: in every state every move generated for a live
\* piece p starts at p, names as destination_piece what stands on the
\* destination, and the destination is empty or holds a piece of the other
\* side.
CaptureExclusivity ==
    \A p \in LivePieces(board) : \A m \in MovesOf(board, p) :
       /\ m.origin = board.position[p]
       /\ m.origin_piece = p
       /\ inbounds(m.destination)
       /\ m.destination_piece = At(board, m.destination)
       /\ \/ At(board, m.destination) = Empty
          \/ player_of(At(board, m.destination)) # player_of(p)

\* C12 witness: inside a search a piece has a capture among its moves and a
\* piece of its own side next to it on one of its directions.
CaptureBesideFriend ==
    /\ pc = "search"
    /\ \E p \in LivePieces(board) :
          /\ \E m \in MovesOf(board, p) : m.destination_piece # Empty
          /\ \E n \in 1..Len(Directions(piece_type(board, p), player_of(p))) :
                LET v == Directions(piece_type(board, p), player_of(p))[n][1]
                    sq == <<board.position[p][1] + v[1], board.position[p][2] + v[2]>>
                IN /\ inbounds(sq)
                   /\ At(board, sq) # Empty
                   /\ player_of(At(board, sq)) = player_of(p)

\* The unit steps of the rays of a sliding kind.
SlidingRays(kind) ==
    LET straight == {<<1, 0>>, <<-1, 0>>, <<0, 1>>, <<0, -1>>}
        diagonal == {<<1, 1>>, <<1, -1>>, <<-1, 1>>, <<-1, -1>>}
    IN IF kind = "rook" THEN straight
       ELSE IF kind = "bishop" THEN diagonal
       ELSE straight \cup diagonal

\* The i-th square from pos along the ray d.
RaySquare(pos, d, i) == <<pos[1] + i * d[1], pos[2] + i * d[2]>>

\* The squares p can go to along the ray d: in bounds, nothing on the
\* squares before, and empty or held by the other side.
ReachOnRay(B, p, d) ==
    {RaySquare(B.position[p], d, i) :
       i \in {n \in 1..7 :
                /\ inbounds(RaySquare(B.position[p], d, n))
                /\ \A j \in 1..(n - 1) : At(B, RaySquare(B.position[p], d, j)) = Empty
                /\ \/ At(B, RaySquare(B.position[p], d, n)) = Empty
                   \/ player_of(At(B, RaySquare(B.position[p], d, n))) # player_of(p)}}

Destinations(B, p) == {m.destination : m \in MovesOf(B, p)}

Sliding == {"rook", "bishop", "queen"}

\* C13. Sliding stop rule: in every state the destinations of a rook, bishop
\* or queen are, ray by ray, exactly the in-bounds squares up to the first
\* occupied one, that one included when it holds an enemy piece, and each
\* is generated once.
SlidingStopRule ==
    \A p \in LivePieces(board) :
       piece_type(board, p) \in Sliding =>
          LET moves == get_moves(board, p)
              destinations == {moves[k].destination : k \in 1..Len(moves)}
              rays == SlidingRays(piece_type(board, p))
              OnRay(sq, d) == \E i \in 1..7 : sq = RaySquare(board.position[p], d, i)
          IN /\ \A d \in rays :
                   {sq \in destinations : OnRay(sq, d)} = ReachOnRay(board, p, d)
             /\ \A sq \in destinations : \E d \in rays : OnRay(sq, d)
             /\ Len(moves) = Cardinality(destinations)

\* C13 witness: a sliding piece has a ray that ends on an enemy piece with
\* the board going on behind it, and another ray cut short by a friendly
\* piece at least two squares away.
RayCutByEnemyAndFriend ==
    \E p \in LivePieces(board) :
       /\ piece_type(board, p) \in Sliding
       /\ \E d \in SlidingRays(piece_type(board, p)) : \E i \in 1..6 :
             /\ RaySquare(board.position[p], d, i) \in ReachOnRay(board, p, d)
             /\ At(board, RaySquare(board.position[p], d, i)) # Empty
             /\ inbounds(RaySquare(board.position[p], d, i + 1))
       /\ \E d \in SlidingRays(piece_type(board, p)) : \E i \in 2..7 :
             /\ RaySquare(board.position[p], d, i - 1) \in ReachOnRay(board, p, d)
             /\ inbounds(RaySquare(board.position[p], d, i))
             /\ At(board, RaySquare(board.position[p], d, i)) # Empty
             /\ player_of(At(board, RaySquare(board.position[p], d, i))) = player_of(p)
             /\ At(board, RaySquare(board.position[p], d, i - 1)) = Empty

\* What make_move and the unmake_move after it do to kinds, pawn_change and
\* score for the move m on B: a pawn reaching its farthest rank becomes a
\* queen, is marked, and moves the score by 16 of its sign besides the
\* capture; unmake_move takes exactly that back; any other move leaves all
\* kinds and the mark alone.
PromotionEffect(B, m) ==
    LET p == m.origin_piece
        made == make_move(B, m)
        unmade == unmake_move(made.board, made.move)
        captured == IF m.destination_piece = Empty THEN 0
                    ELSE value(B, m.destination_piece)
        farthest == IF player_of(p) = White THEN 7 ELSE 0
        sixteen == IF player_of(p) = White THEN 16 ELSE -16
    IN IF piece_type(B, p) = "pawn" /\ m.destination[2] = farthest
       THEN /\ made.board.piece_behavior = [B.piece_behavior EXCEPT ![p] = "queen"]
            /\ made.move.pawn_change = TRUE
            /\ made.board.score = B.score - captured + sixteen
            /\ unmade.board.piece_behavior = B.piece_behavior
            /\ unmade.move.pawn_change = FALSE
            /\ unmade.board.score = made.board.score + captured - sixteen
       ELSE /\ made.board.piece_behavior = B.piece_behavior
            /\ made.move.pawn_change = FALSE
            /\ made.board.score = B.score - captured
            /\ unmade.board.piece_behavior = B.piece_behavior
            /\ unmade.move.pawn_change = FALSE

\* C14. Promotion delta: for every generated move of either side between
\* turns, and for every candidate a search is about to make, make_move
\* turns a pawn that reaches its farthest rank into a queen in place, marks
\* the move pawn_change and moves the score by +16 (White) or -16 (Black)
\* on top of the capture; unmake_move reverts the kind, clears the mark and
\* takes the 16 back; no other move changes a kind.
PromotionDelta ==
    /\ pc = "do_turn" =>
          \A p \in LivePieces(board) : \A m \in MovesOf(board, p) :
             PromotionEffect(board, m)
    /\ (pc = "search" /\ ~Finished(frames[Len(frames)])) =>
          PromotionEffect(board, frames[Len(frames)].candidates[frames[Len(frames)].i + 1])

\* C14 witness: a search has just made a Black pawn's straight move onto
\* rank 0, an empty square: the pawn is a queen, the move is marked and the
\* score is 16 lower than before the move.
BlackPromotionMade ==
    /\ pc = "search"
    /\ Len(frames) >= 2
    /\ frames[Len(frames)].i = 0
    /\ LET f == frames[Len(frames) - 1]
           c == f.candidates[f.i + 1]
       IN /\ player_of(c.origin_piece) = Black
          /\ c.destination[2] = 0
          /\ c.destination_piece = Empty
          /\ c.pawn_change = TRUE
          /\ board.piece_behavior[c.origin_piece] = "queen"
          /\ f.saved.piece_behavior[c.origin_piece] = "pawn"
          /\ board.score = f.saved.score - 16

\* A pawn's forward step, its starting rank, and the squares one and two
\* ranks ahead of it.
Forward(p) == IF player_of(p) = White THEN 1 ELSE -1

StartRank(p) == IF player_of(p) = White THEN 1 ELSE 6

Ahead(B, p, n) == <<B.position[p][1], B.position[p][2] + n * Forward(p)>>

LivePawns(B) == {p \in LivePieces(B) : piece_type(B, p) = "pawn"}

OnStartRank(B, p) == B.position[p][2] = StartRank(p)

\* p's moves contain one two ranks ahead.
HasDoubleStep(B, p) ==
    \E m \in MovesOf(B, p) :
       m.destination[2] - m.origin[2] \in {2, -2}

\* C15. Pawn double-step gating: in every state a pawn's moves contain a
\* two-rank move only if the pawn stands on its starting rank (1 for
\* White, 6 for Black), and a pawn on its starting rank with the two
\* squares ahead empty has both the single and the double step.
DoubleStepGating ==
    \A p \in LivePawns(board) :
       /\ HasDoubleStep(board, p) => OnStartRank(board, p)
       /\ (/\ OnStartRank(board, p)
           /\ At(board, Ahead(board, p, 1)) = Empty
           /\ At(board, Ahead(board, p, 2)) = Empty) =>
             {Ahead(board, p, 1), Ahead(board, p, 2)} \subseteq Destinations(board, p)

\* C15 witness: the White pawn of (3,1) is at home with (3,2) and (3,3)
\* empty and has both steps, while another pawn is off its starting rank
\* with two empty squares ahead and has the single step only.
HomeAndAdvancedPawn ==
    /\ 12 \in LivePawns(board)
    /\ board.position[12] = <<3, 1>>
    /\ {<<3, 2>>, <<3, 3>>} \subseteq Destinations(board, 12)
    /\ \E p \in LivePawns(board) :
          /\ ~OnStartRank(board, p)
          /\ inbounds(Ahead(board, p, 2))
          /\ At(board, Ahead(board, p, 1)) = Empty
          /\ At(board, Ahead(board, p, 2)) = Empty
          /\ Ahead(board, p, 1) \in Destinations(board, p)
          /\ ~HasDoubleStep(board, p)

\* C16, as the specification states it. Simplified pawn double-step: a pawn
\* on its starting rank whose double-step destination is empty generates
\* the double step, whatever stands on the square directly in front of it.
DoubleStepIgnoresIntermediate ==
    \A p \in LivePawns(board) :
       (OnStartRank(board, p) /\ At(board, Ahead(board, p, 2)) = Empty) =>
          HasDoubleStep(board, p)

\* C16, amended. A pawn generates the double step exactly when it stands on
\* its starting rank and both the square in front of it and the double-step
\* destination are empty.
DoubleStepNeedsClearPath ==
    \A p \in LivePawns(board) :
       HasDoubleStep(board, p) <=>
          /\ OnStartRank(board, p)
          /\ At(board, Ahead(board, p, 1)) = Empty
          /\ At(board, Ahead(board, p, 2)) = Empty

\* C16 witness: a pawn at home has an enemy piece directly in front of it,
\* an empty square behind that, and no double step.
DoubleStepBlocked ==
    \E p \in LivePawns(board) :
       /\ OnStartRank(board, p)
       /\ At(board, Ahead(board, p, 1)) # Empty
       /\ player_of(At(board, Ahead(board, p, 1))) # player_of(p)
       /\ At(board, Ahead(board, p, 2)) = Empty
       /\ ~HasDoubleStep(board, p)

\* C17. Pawn move/capture rule: in every state every move of a pawn is
\* either straight ahead (one or two ranks, same file) onto an empty
\* square, or one step diagonally ahead onto a square held by an enemy
\* piece.
PawnMoveRule ==
    \A p \in LivePawns(board) : \A m \in MovesOf(board, p) :
       LET dx == m.destination[1] - m.origin[1]
           dy == m.destination[2] - m.origin[2]
       IN \/ /\ dx = 0
             /\ dy \in {Forward(p), 2 * Forward(p)}
             /\ At(board, m.destination) = Empty
             /\ m.destination_piece = Empty
          \/ /\ dx \in {1, -1}
             /\ dy = Forward(p)
             /\ At(board, m.destination) # Empty
             /\ player_of(At(board, m.destination)) # player_of(p)

\* C17 witness: a pawn has an enemy piece straight ahead and an empty
\* square diagonally ahead, and moves to neither.
PawnFacesEnemy ==
    \E p \in LivePawns(board) :
       /\ At(board, Ahead(board, p, 1)) # Empty
       /\ player_of(At(board, Ahead(board, p, 1))) # player_of(p)
       /\ Ahead(board, p, 1) \notin Destinations(board, p)
       /\ \E dx \in {1, -1} :
             LET sq == <<board.position[p][1] + dx, board.position[p][2] + Forward(p)>>
             IN inbounds(sq) /\ At(board, sq) = Empty /\ sq \notin Destinations(board, p)

Abs(n) == IF n < 0 THEN -n ELSE n

Sign(n) == IF n < 0 THEN -1 ELSE IF n > 0 THEN 1 ELSE 0

\* a and b are different squares of one rank or file / of one diagonal.
OnLine(a, b) == a # b /\ (a[1] = b[1] \/ a[2] = b[2])

OnDiagonal(a, b) == a # b /\ Abs(a[1] - b[1]) = Abs(a[2] - b[2])

\* The squares strictly between two squares of one line or diagonal.
Between(a, b) ==
    LET n == IF Abs(b[1] - a[1]) > Abs(b[2] - a[2])
             THEN Abs(b[1] - a[1]) ELSE Abs(b[2] - a[2])
    IN {<<a[1] + i * Sign(b[1] - a[1]), a[2] + i * Sign(b[2] - a[2])>> :
          i \in 1..(n - 1)}

\* The enemy pieces that share a rank or file with side's king and are
\* rooks or queens, or share a diagonal with it and are bishops or queens.
RayPieces(B, side) ==
    {r \in Members(B, OtherPlayer(side)) :
       \/ /\ piece_type(B, r) \in {"rook", "queen"}
          /\ OnLine(B.position[r], B.position[kings(side)])
       \/ /\ piece_type(B, r) \in {"bishop", "queen"}
          /\ OnDiagonal(B.position[r], B.position[kings(side)])}

\* No enemy piece other than r has a generated move onto side's king.
NoOtherAttacker(B, side, r) ==
    \A q \in Members(B, OtherPlayer(side)) \ {r} :
       B.position[kings(side)] \notin Destinations(B, q)

Clear(B, a, b) == \A sq \in Between(a, b) : At(B, sq) = Empty

\* C18. Ray check and blocking: in every state where side's king is live
\* and an enemy rook or queen shares its rank or file (or an enemy bishop or
\* queen its diagonal), check_check(side) is true when the squares between
\* them are all empty, and false when one of them is occupied and no other
\* enemy piece attacks the king.
RayCheckAndBlocking ==
    \A side \in Sides :
       kings(side) \in Members(board, side) =>
          \A r \in RayPieces(board, side) :
             LET king_position == board.position[kings(side)]
             IN IF Clear(board, board.position[r], king_position)
                THEN check_check(board, side)
                ELSE NoOtherAttacker(board, side, r) => ~check_check(board, side)

\* C18 witness: a rook two or more squares away from a live king, on its
\* rank or file with every square between them empty, and check_check
\* reports the check.
RookRayCheck ==
    \E side \in Sides : \E r \in RayPieces(board, side) :
       /\ kings(side) \in Members(board, side)
       /\ piece_type(board, r) = "rook"
       /\ Between(board.position[r], board.position[kings(side)]) # {}
       /\ Clear(board, board.position[r], board.position[kings(side)])
       /\ check_check(board, side)

\* The candidate an activation has made and not yet unmade.
Pending(f) == f.candidates[f.i + 1]

\* The moves made and not yet unmade are the pending candidates of the
\* activations below the innermost one: there are at most depth of them,
\* each was made on the board its activation holds, and the board is the
\* one the innermost activation was entered with.
StackShape ==
    pc = "search" =>
       LET top == Len(frames)
       IN /\ top >= 1
          /\ top - 1 <= call.depth
          /\ \A k \in 1..top : frames[k].depth = call.depth - (k - 1)
          /\ Observe(frames[1].saved) = Observe(entry)
          /\ \A k \in 1..(top - 1) :
                Observe(make_move(frames[k].saved, Pending(frames[k])).board)
                   = Observe(frames[k + 1].saved)
          /\ Observe(board) = Observe(frames[top].saved)

\* A step of the search either makes the innermost activation's next
\* candidate, or unmakes the most recently made pending candidate and gets
\* back the board that candidate was made on, or leaves the board alone.
StackStep ==
    pc = "search" =>
       LET top == Len(frames)
       IN IF pc' = "search" /\ Len(frames') > top
          THEN /\ Len(frames') = top + 1
               /\ board' = make_move(board, Pending(frames[top])).board
               /\ Plain(Pending(frames'[top])) =
                     Plain(make_move(board, Pending(frames[top])).move)
          ELSE IF pc' = "search" /\ Len(frames') < top
          THEN /\ Len(frames') = top - 1
               /\ Observe(board') =
                     Observe(unmake_move(board, Pending(frames[top - 1])).board)
               /\ Observe(board') = Observe(frames[top - 1].saved)
               /\ frames'[top - 1].i = frames[top - 1].i + 1
          ELSE board' = board

\* C19. Stack discipline of the search: while AI_choose_move(board, side,
\* depth) runs, every unmake_move undoes the most recently made move that
\* is not yet unmade, the board changes between a make_move and its
\* unmake_move only by nested make/unmake pairs, and at most depth moves
\* are made and not yet unmade.
StackDiscipline == []StackShape /\ [][StackStep]_vars

\* C19 witness: depth moves are made and not yet unmade in a search of the
\* largest depth, after the outermost activation has already made and
\* unmade a candidate.
FullDepthStack ==
    /\ pc = "search"
    /\ call.depth = MaxDepth
    /\ Len(frames) - 1 = call.depth
    /\ frames[1].i >= 1
    /\ frames[2].i >= 1

\* The square at the k-th vector from side's king.
OffsetSquare(B, side, vectors, k) ==
    <<B.position[kings(side)][1] + vectors[k][1],
      B.position[kings(side)][2] + vectors[k][2]>>

\* A live enemy piece of the kind stands on the k-th offset square.
EnemyOnOffset(B, side, vectors, kind, k) ==
    /\ inbounds(OffsetSquare(B, side, vectors, k))
    /\ LET piece == At(B, OffsetSquare(B, side, vectors, k))
       IN /\ piece # Empty
          /\ player_of(piece) # side
          /\ piece_type(B, piece) = kind

\* C20. Offset attackers are fully scanned: in every state where side's
\* king is live, an enemy knight on any in-bounds knight-offset square of
\* the king, or an enemy king on any adjacent square, makes
\* check_check(side) true, whatever is on or off the board at the other
\* offset squares.
OffsetAttackersScanned ==
    \A side \in Sides :
       kings(side) \in Members(board, side) =>
          \A k \in 1..8 :
             (\/ EnemyOnOffset(board, side, KnightVectors, "knight", k)
              \/ EnemyOnOffset(board, side, KingVectors, "king", k))
                => check_check(board, side)

\* C20 witness: an enemy knight stands on a knight-offset square of a live
\* king, every offset scanned before it is on the board, one of them is
\* occupied, and check_check says the king is not in check.
OccupiedOffsetEndsScan ==
    \E side \in Sides : \E k \in 2..8 :
       /\ kings(side) \in Members(board, side)
       /\ EnemyOnOffset(board, side, KnightVectors, "knight", k)
       /\ \A j \in 1..(k - 1) :
             inbounds(OffsetSquare(board, side, KnightVectors, j))
       /\ \E j \in 1..(k - 1) :
             At(board, OffsetSquare(board, side, KnightVectors, j)) # Empty
       /\ ~check_check(board, side)

\* C21. Check detection has no false positives: in every state where
\* side's king is live and check_check(side) is true, some live opposing
\* piece has a generated move onto the king's square.
NoFalseCheck ==
    \A side \in Sides :
       (kings(side) \in Members(board, side) /\ check_check(board, side))
          => AttackedByMoves(board, side)

\* C21 witness: check_check reports a check that only a pawn gives: the
\* pawn loop finds the pawn, and no live opposing piece other than pawns
\* has a generated move onto the king's square.
PawnGivesCheck ==
    \E side \in Sides :
       /\ kings(side) \in Members(board, side)
       /\ check_check(board, side)
       /\ PawnLoop(board, side, board.position[kings(side)])
       /\ \A q \in Members(board, OtherPlayer(side)) :
             board.position[kings(side)] \in Destinations(board, q)
                => piece_type(board, q) = "pawn"

BothKings(B) == HasKing(B, White) /\ HasKing(B, Black)

\* Between turns both kings are on the board; the game is over only with a
\* king captured, and then the side that moved last is reported as the
\* winner; every move generated for the side to move passes the validation
\* of make_user_move, whatever check_check says after it.
KingCaptureState ==
    /\ pc \in {"do_turn", "chosen", "crashed"} => BothKings(board)
    /\ pc = "over" =>
          /\ ~HasKing(board, OtherPlayer(player))
          /\ HasKing(board, player)
          /\ outcome.white_won = (player = White)
          /\ outcome.black_won = (player = Black)
    /\ pc = "do_turn" =>
          \A p \in Members(board, player) : \A m \in MovesOf(board, p) :
             is_valid_move(board, m)

\* Nothing is played once the game is over; a ply that is committed ends the
\* game exactly when it captured a king, and passes the turn to the other
\* side otherwise, in check or not.
KingCaptureStep ==
    /\ pc # "over"
    /\ (pc \in {"do_turn", "chosen"} /\ board' # board) =>
          IF BothKings(board')
          THEN pc' = "do_turn" /\ player' = OtherPlayer(player)
          ELSE pc' = "over" /\ player' = player

\* C22. Game end only by king capture: no turn is played after a ply that
\* captured a king, the loop stops right after that ply with the capturing
\* side reported as winner, the game never stops and never rejects a
\* generated move because a side is in check, and moves that leave the
\* mover's own king in check are generated and accepted.
EndOnlyByKingCapture == []KingCaptureState /\ [][KingCaptureStep]_vars

\* C22 witness: a user's ply was accepted although check_check reports the
\* mover's own king in check after it, and the other side is to move.
MovedIntoCheckAccepted ==
    /\ pc = "do_turn"
    /\ step + free > 0
    /\ players[OtherPlayer(player)].kind = "user"
    /\ check_check(board, OtherPlayer(player))
    /\ AttackedByMoves(board, OtherPlayer(player))

\* The plies committed so far.
Plies == step + free

\* Black plies completed: every second ply.
BlackPlies == Plies \div 2

\* White moves when an even number of plies was played, Black when an odd
\* number was; when the game is over player is the side that moved last;
\* turn is the number of Black plies.
TurnState ==
    /\ turn = BlackPlies
    /\ round = IF pc = "over" /\ player = Black THEN BlackPlies - 1 ELSE BlackPlies
    /\ IF pc = "over"
       THEN player = (IF Plies % 2 = 1 THEN White ELSE Black)
       ELSE player = (IF Plies % 2 = 0 THEN White ELSE Black)

\* A ply is one make_move of a move generated for the side to move, and it
\* adds one to turn exactly when Black played it; nothing else changes
\* turn or the side to move, and outside the search nothing else changes
\* the board.
TurnStep ==
    LET plies_after == step' + free'
    IN IF plies_after # Plies
       THEN /\ plies_after = Plies + 1
            /\ pc \in {"do_turn", "chosen"}
            /\ \E p \in Members(board, player) : \E m \in MovesOf(board, p) :
                  board' = make_move(board, m).board
            /\ turn' = IF player = Black THEN turn + 1 ELSE turn
            /\ pc' = "do_turn" => player' = OtherPlayer(player)
       ELSE /\ turn' = turn
            /\ player' = player
            /\ (pc # "search" /\ pc' # "search") => board' = board

\* C23. Turn sequencing: White makes the first move, the sides strictly
\* alternate with exactly one make_move committed per do_turn, and turn is
\* incremented once after each Black ply and never after a White ply, so
\* turn always equals the number of Black plies completed.
TurnSequencing == []TurnState /\ [][TurnStep]_vars

\* C23 witness: two Black plies and a third White ply are completed, turn
\* is 2 and Black is to move.
ThirdWhitePlyDone ==
    /\ pc = "do_turn"
    /\ Plies = 5
    /\ turn = 2
    /\ player = Black

\* A move as generated: what make_move and the scoring fill in is put aside.
Generated(move) == <<move.origin_piece, move.origin, move.destination>>

\* The moves generated for side on B, one entry per move.
GeneratedFor(B, side) ==
    LET candidates == construct_candidates(B, side)
    IN {Generated(candidates[k]) : k \in 1..Len(candidates)}

\* An activation above depth 0 holds every move generated for its side on
\* the board it was entered with, each once, and has tried the first i of
\* them; the activations run at the caller's depth, one less per ply.
SearchHoldsEveryMove ==
    pc = "search" =>
       \A k \in 1..Len(frames) :
          LET f == frames[k]
          IN /\ f.depth = call.depth - (k - 1)
             /\ f.i <= Len(f.candidates)
             /\ f.depth > 0 =>
                   /\ {Generated(f.candidates[j]) : j \in 1..Len(f.candidates)}
                         = GeneratedFor(f.saved, f.player)
                   /\ Cardinality(GeneratedFor(f.saved, f.player)) = Len(f.candidates)
                   /\ k < Len(frames) => f.i < Len(f.candidates)

\* Candidates are made in order, one at a time, and unmade before the next;
\* an activation returns only at depth 0 or with every candidate tried.
SearchTriesEveryMove ==
    pc = "search" =>
       LET top == Len(frames)
           f == frames[top]
       IN IF pc' = "search" /\ Len(frames') > top
          THEN /\ f.depth > 0
               /\ frames'[top].i = f.i
               /\ board' = make_move(board, f.candidates[f.i + 1]).board
               /\ frames'[top + 1].depth = f.depth - 1
          ELSE /\ f.depth = 0 \/ f.i = Len(f.candidates)
               /\ top >= 2 =>
                     /\ frames'[top - 1].i = frames[top - 1].i + 1
                     /\ Observe(board') = Observe(frames[top - 1].saved)

\* C24. Search termination and exhaustiveness: AI_choose_move returns, and
\* while it runs every move generated for the side to move in every
\* position fewer than depth plies from the root is made and unmade exactly
\* once: no candidate is pruned and no depth below the caller's ends the
\* descent.
SearchTerminatesExhaustive ==
    /\ []SearchHoldsEveryMove
    /\ [][SearchTriesEveryMove]_vars
    /\ (pc = "search") ~> (pc = "chosen")

\* C24 witness: the outermost activation of a search of the largest depth
\* has made and unmade every one of its candidates, more than one, and is
\* about to return.
RootTriedEveryCandidate ==
    /\ pc = "search"
    /\ Len(frames) = 1
    /\ call.depth = MaxDepth
    /\ Len(frames[1].candidates) >= 2
    /\ frames[1].i = Len(frames[1].candidates)

\* A sequence without its entries equal to p, the order kept.
Without(seq, p) == SelectSeq(seq, LAMBDA q : q # p)

\* What make_move(m) does to B and what it leaves alone.
MakeMoveEffect(B, m) ==
    LET mp == m.origin_piece
        dp == m.destination_piece
        after == make_move(B, m).board
        promotes == after.piece_behavior # B.piece_behavior
        sixteen == IF ~promotes THEN 0
                   ELSE IF player_of(mp) = White THEN 16 ELSE -16
    IN /\ IF dp # Empty
          THEN /\ after.pieces[player_of(dp)] = Without(B.pieces[player_of(dp)], dp)
               /\ Len(after.pieces[player_of(dp)]) = Len(B.pieces[player_of(dp)]) - 1
               /\ after.pieces[player_of(mp)] = B.pieces[player_of(mp)]
               /\ after.num_pieces = B.num_pieces - 1
               /\ after.score = B.score - value(B, dp) + sixteen
          ELSE /\ after.pieces = B.pieces
               /\ after.num_pieces = B.num_pieces
               /\ after.score = B.score + sixteen
       /\ \A x, y \in Coords :
             after.grid[y][x] = IF <<x, y>> = m.destination THEN mp
                                ELSE IF <<x, y>> = m.origin THEN Empty
                                ELSE B.grid[y][x]
       /\ \A p \in PieceIds :
             after.position[p] = IF p = mp THEN m.destination ELSE B.position[p]

\* C25. Effect and frame of make_move: for every generated move of either
\* side between turns, and for every candidate a search is about to make, a
\* capture removes exactly the captured piece from its side's collection,
\* lowers num_pieces by 1 and subtracts the captured piece's signed value
\* from score; a move that neither captures nor promotes leaves score,
\* num_pieces and both collections unchanged; only the origin cell (emptied)
\* and the destination cell (the moving piece) change in the grid, and only
\* the moving piece changes its position.
MakeMoveFrame ==
    /\ pc = "do_turn" =>
          \A p \in LivePieces(board) : \A m \in MovesOf(board, p) :
             MakeMoveEffect(board, m)
    /\ (pc = "search" /\ ~Finished(frames[Len(frames)])) =>
          MakeMoveEffect(board, Pending(frames[Len(frames)]))

\* C25 witness: a search has just made a capture by a piece that is not a
\* pawn: the captured piece is out of its collection, one piece less is
\* counted, and the capturing piece stands on the captured piece's square.
CaptureJustMade ==
    /\ pc = "search"
    /\ Len(frames) >= 2
    /\ frames[Len(frames)].i = 0
    /\ LET f == frames[Len(frames) - 1]
           m == Pending(f)
       IN /\ m.destination_piece # Empty
          /\ piece_type(board, m.origin_piece) # "pawn"
          /\ m.destination_piece \notin LivePieces(board)
          /\ board.num_pieces = f.saved.num_pieces - 1
          /\ At(board, m.destination) = m.origin_piece
          /\ At(board, m.origin) = Empty

\* Both coordinates are in [0,7].
InBoard(sq) == sq[1] \in 0..7 /\ sq[2] \in 0..7

\* C26. Bounds safety: in every state every square get_moves (of any live
\* piece) and check_check (of either side) subscript the grid with has both
\* coordinates in [0,7], and every generated move has its origin and its
\* destination in [0,7] x [0,7].
BoundsSafety ==
    /\ \A p \in LivePieces(board) :
          /\ \A sq \in get_moves_reads(board, p) : InBoard(sq)
          /\ \A m \in MovesOf(board, p) : InBoard(m.origin) /\ InBoard(m.destination)
          /\ Destinations(board, p) \subseteq get_moves_reads(board, p)
    /\ \A side \in Sides :
          \A sq \in check_check_reads(board, side) : InBoard(sq)

\* C26 witness: a knight that has left its starting square has a vector
\* that leads to a negative coordinate, and generated moves; a live king
\* that has left its starting square stands on an edge of the board, so
\* that the loops of check_check around it run off the board.
EdgePiecesMoved ==
    /\ \E p \in LivePieces(board) :
          /\ piece_type(board, p) = "knight"
          /\ board.position[p] # InitPosition(p)
          /\ \E v \in {<<1, -2>>, <<-1, -2>>, <<-2, 1>>, <<-2, -1>>} :
                \/ board.position[p][1] + v[1] < 0
                \/ board.position[p][2] + v[2] < 0
          /\ MovesOf(board, p) # {}
    /\ \E side \in Sides :
          /\ kings(side) \in Members(board, side)
          /\ board.position[kings(side)] # InitPosition(kings(side))
          /\ \/ board.position[kings(side)][1] \in {0, 7}
             \/ board.position[kings(side)][2] \in {0, 7}

\* The pieces of kind king in side's collection.
KingsOf(B, side) == {p \in Members(B, side) : piece_type(B, p) = "king"}

\* The pieces standing on the grid.
OnGrid(B) == {B.grid[y][x] : x, y \in Coords} \ {Empty}

\* C27. King invariant: in every state with no king captured each side's
\* collection holds exactly one king, the piece kings[side] names, standing
\* on the cell its position gives; a king is in its side's collection
\* exactly as long as it stands on the grid, so the make_move that captures
\* it removes it in that step; no piece but the two kings of the initial
\* board is ever of kind king, so no side ever has more than one.
KingInvariant ==
    /\ \A side \in Sides :
          /\ KingsOf(board, side) \subseteq {kings(side)}
          /\ Occurrences(board, kings(side)) <= 1
          /\ (kings(side) \in Members(board, side)) <=> (kings(side) \in OnGrid(board))
          /\ kings(side) \in Members(board, side) =>
                At(board, board.position[kings(side)]) = kings(side)
    /\ \A p \in PieceIds :
          board.piece_behavior[p] = "king" <=> p \in {kings(White), kings(Black)}
    /\ BothKings(board) =>
          \A side \in Sides :
             KingsOf(board, side) = {kings(side)} /\ Occurrences(board, kings(side)) = 1

\* C27 witness: both kings are live and have left their starting squares,
\* and a pawn that became a queen is on the board.
KingsBesidePromotedPawn ==
    /\ BothKings(board)
    /\ \A side \in Sides :
          board.position[kings(side)] # InitPosition(kings(side))
    /\ \E p \in LivePieces(board) : Promoted(board, p)

\* The occupied cells of the grid.
Occupied(B) == {sq \in Coords \X Coords : At(B, sq) # Empty}

\* C28. Live-piece counter: in every state, between turns and at every
\* point of a search (moves made, and unmade in stack order), num_pieces is
\* the number of pieces in the two collections together and the number of
\* occupied cells of the grid, and lies between 0 and 32; a promotion that
\* captures nothing leaves it as it is.
LivePieceCounter ==
    /\ board.num_pieces = Len(board.pieces[White]) + Len(board.pieces[Black])
    /\ board.num_pieces = Cardinality(Occupied(board))
    /\ board.num_pieces \in 0..32
    /\ (pc = "search" /\ ~Finished(frames[Len(frames)])) =>
          LET m == Pending(frames[Len(frames)])
              after == make_move(board, m).board
          IN (/\ ~Promoted(board, m.origin_piece)
              /\ Promoted(after, m.origin_piece)
              /\ m.destination_piece = Empty) =>
                after.num_pieces = board.num_pieces

\* C28 witness: inside a search an activation has just made and unmade a
\* capture, the counter is back at what it was before the capture, and
\* pieces are missing from the board.
CaptureCountedBack ==
    /\ pc = "search"
    /\ LET f == frames[Len(frames)]
       IN /\ f.i >= 1
          /\ f.candidates[f.i].destination_piece # Empty
          /\ f.candidates[f.i].destination_piece \in LivePieces(board)
          /\ board.num_pieces = f.saved.num_pieces
          /\ board.num_pieces < 32

\* When a nested activation is about to return, whichever of the tied
\* moves it returns gives its caller's candidate the same score_change.
TieBreakState ==
    (pc = "search" /\ Len(frames) >= 2 /\ Finished(frames[Len(frames)])) =>
       LET g == frames[Len(frames)]
           f == frames[Len(frames) - 1]
       IN \A m1, m2 \in Returned(g) :
             ScoreChange(board, f, m1) = ScoreChange(board, f, m2)

\* A step of the search is determined by the state, the tie-break put
\* aside: a return writes the score_change every tied move gives, the
\* board and the other candidates being what they are for every choice;
\* the outermost return hands back one of the moves tied for the extreme.
TieBreakStep ==
    pc = "search" =>
       LET top == Len(frames)
       IN IF pc' = "search" /\ Len(frames') < top
          THEN LET g == frames[top]
                   f == frames[top - 1]
               IN \A m \in Returned(g) :
                     LET candidate == [f.candidates[f.i + 1] EXCEPT
                                          !.score_change = ScoreChange(board, f, m)]
                         unmade == unmake_move(board, candidate)
                     IN /\ board' = unmade.board
                        /\ frames' = [SubSeq(frames, 1, top - 1) EXCEPT ![top - 1] =
                                         [f EXCEPT !.candidates[f.i + 1] = unmade.move,
                                                   !.i = f.i + 1]]
          ELSE IF pc' = "chosen"
          THEN /\ result' \in Returned(frames[1])
               /\ \A m \in Returned(frames[1]) :
                     m.score_change = result'.score_change
          ELSE TRUE

\* C29. Deterministic evaluation under random tie-breaking: the
\* score_change AI_choose_move gives each candidate, at the root and below,
\* is the same whichever tied move the tie-break returns at deeper plies,
\* and so are the extreme value and the set of tied best moves; the move
\* returned is one of that set, fixed by the random choices.
TieBreakIndependence == []TieBreakState /\ [][TieBreakStep]_vars

\* C29 witness: a nested activation above depth 0 is about to return and
\* two or more different moves are tied for its best score_change, which is
\* not 0.
DeepTieOfUnequalMoves ==
    /\ pc = "search"
    /\ Len(frames) >= 2
    /\ LET g == frames[Len(frames)]
       IN /\ g.depth >= 1
          /\ Finished(g)
          /\ Cardinality({Generated(m) : m \in Returned(g)}) >= 2
          /\ \E m \in Returned(g) : m.score_change # 0
          /\ \E k \in 1..Len(g.candidates) : g.candidates[k] \notin Returned(g)

\* The kind that stands on column x of a back rank at the start.
StartKind(x) ==
    CASE x \in {0, 7} -> "rook"
      [] x \in {1, 6} -> "knight"
      [] x \in {2, 5} -> "bishop"
      [] x = 3 -> "queen"
      [] x = 4 -> "king"

\* The standard starting position: per side 16 different pieces, the
\* White back rank on rank 0 and pawns on rank 1, the Black pawns on rank 6
\* and back rank on rank 7, nothing in between, 32 pieces counted, score 0.
StartingPosition(B) ==
    /\ \A side \in Sides :
          Len(B.pieces[side]) = 16 /\ Cardinality(Members(B, side)) = 16
    /\ B.num_pieces = 32
    /\ B.score = 0
    /\ B.position[kings(White)] = <<4, 0>>
    /\ B.position[kings(Black)] = <<4, 7>>
    /\ \A x, y \in Coords :
          LET p == B.grid[y][x]
          IN IF y \in 2..5 THEN p = Empty
             ELSE /\ p # Empty
                  /\ B.position[p] = <<x, y>>
                  /\ p \in Members(B, IF y \in {0, 1} THEN White ELSE Black)
                  /\ player_of(p) = IF y \in {0, 1} THEN White ELSE Black
                  /\ piece_type(B, p) = IF y \in {1, 6} THEN "pawn" ELSE StartKind(x)

\* The value of a piece by its kind and side.
TableValue(kind, side) ==
    LET magnitude == CASE kind = "pawn" -> 2
                       [] kind = "knight" -> 6
                       [] kind = "bishop" -> 6
                       [] kind = "rook" -> 10
                       [] kind = "queen" -> 18
                       [] kind = "king" -> 200
    IN IF side = White THEN magnitude ELSE -magnitude

\* C30. Initial position and piece values: the board of a game in which
\* no ply has been played has 16 pieces per side on the standard starting
\* squares (White on ranks 0-1 with its king on (4,0), Black on ranks 6-7
\* with its king on (4,7)), num_pieces = 32 and score = 0; and in every
\* state a piece is worth 2 as a pawn, 6 as a knight or bishop, 10 as a
\* rook, 18 as a queen and 200 as a king, positive for White and negated
\* for Black.
InitialPositionAndValues ==
    /\ (Plies = 0 /\ pc \in {"do_turn", "chosen", "crashed"}) =>
          StartingPosition(board)
    /\ Plies = 0 => StartingPosition(entry)
    /\ \A p \in PieceIds :
          value(board, p) = TableValue(piece_type(board, p), player_of(p))

\* C30 witness: a game has been constructed and nothing has been played or
\* typed yet; the White queen stands on (3,0) and is worth 18, the Black
\* king stands on (4,7) and is worth -200.
FreshGame ==
    /\ Plies = 0
    /\ pc = "do_turn"
    /\ rejects = 0
    /\ piece_type(board, At(board, <<3, 0>>)) = "queen"
    /\ value(board, At(board, <<3, 0>>)) = 18
    /\ At(board, <<4, 7>>) = kings(Black)
    /\ value(board, kings(Black)) = -200

\* The check flag do_turn returned for side.
CheckFlag(side) ==
    IF side = White THEN outcome.white_check ELSE outcome.black_check

\* C31. No check report for a captured king: when a ply has captured
\* side's king, do_turn does not report side as being in check, and
\* check_check(side) is not answered from the square the captured king
\* stood on.
NoCheckForCapturedKing ==
    \A side \in Sides :
       /\ (pc = "over" /\ ~HasKing(board, side)) => ~CheckFlag(side)
       /\ ~HasKing(board, side) => ~check_check(board, side)

\* C31 witness: the game is over, the Black king has been captured, no
\* Black piece is left, and the last do_turn reported Black in check: the
\* square the king stood on holds the capturing piece and has another White
\* piece bearing on it.
CapturedKingReportedInCheck ==
    /\ pc = "over"
    /\ outcome.white_won
    /\ ~HasKing(board, Black)
    /\ outcome.black_check
    /\ player_of(At(board, board.position[kings(Black)])) = White

\* play_game has stopped: by returning, or by an error raised in do_turn.
Stopped == pc \in {"over", "crashed"}

\* C32. Game loop termination: play_game stops only by returning, either
\* right after the first ply that captured a king or, with no king
\* captured, after 10000 White and 10000 Black plies with (False, False)
\* for (white_won, black_won); it never returns with both flags true.
GameLoopTermination ==
    /\ Stopped =>
          /\ pc = "over"
          /\ \/ ~BothKings(board)
             \/ /\ round + 1 = MaxTurns
                /\ player = Black
                /\ ~outcome.white_won
                /\ ~outcome.black_won
    /\ ~(outcome.white_won /\ outcome.black_won)

\* C32 witness: play_game has stopped before any ply was played, with both
\* kings and all 32 pieces on the board and no winner: the first do_turn of
\* a game with an AI player raised an error.
StoppedBeforeFirstPly ==
    /\ Stopped
    /\ Plies = 0
    /\ turn = 0
    /\ BothKings(board)
    /\ board.num_pieces = 32
    /\ players[White].kind = "AI"
    /\ ~outcome.white_won /\ ~outcome.black_won

\* make_move(m) then unmake_move(m) leaves both collections as they were,
\* order included.
OrderKept(B, m) == RoundTrip(B, m).pieces = B.pieces

\* C33. Collection order across make/unmake: for every generated capturing
\* move of either side between turns, and for every capturing candidate a
\* search is about to make, make_move then unmake_move leaves the captured
\* piece's collection with the same pieces in the same order; and when a
\* search has returned, the collections and the order in which
\* construct_candidates enumerates either side's moves are what they were
\* when it was called.
CollectionOrderKept ==
    /\ pc = "do_turn" =>
          \A p \in LivePieces(board) : \A m \in MovesOf(board, p) :
             m.destination_piece # Empty => OrderKept(board, m)
    /\ (pc = "search" /\ ~Finished(frames[Len(frames)])) =>
          (Pending(frames[Len(frames)]).destination_piece # Empty =>
              OrderKept(board, Pending(frames[Len(frames)])))
    /\ pc = "chosen" =>
          /\ board.pieces = entry.pieces
          /\ \A side \in Sides :
                construct_candidates(board, side) = construct_candidates(entry, side)

\* C33 witness: a search has returned, the board is observably the one it
\* was called on, and construct_candidates enumerates the same moves of a
\* side in another order than before the search.
CandidateOrderChanged ==
    /\ pc = "chosen"
    /\ Observe(board) = Observe(entry)
    /\ \E side \in Sides :
          /\ GeneratedFor(board, side) = GeneratedFor(entry, side)
          /\ construct_candidates(board, side) # construct_candidates(entry, side)

=============================================================================
